---- MODULE Spec2Model ----
(***************************************************************************)
(* Model of the capping rule store (src/rules_config.py, RulesManager)     *)
(* and of the block model processor (src/data_processor.py,                *)
(* BlockModelProcessor).                                                    *)
(*                                                                         *)
(* Numbers: the program works on Python floats.  Rule bounds, multipliers  *)
(* and cell values are modelled as integers (exact arithmetic, the same    *)
(* order and the same products as the floats they stand for).              *)
(***************************************************************************)
EXTENDS Integers, Sequences, FiniteSets, TLC

VARIABLES
    rules,          \* RulesManager.rules: list of rule dictionaries
    call,           \* the last call: <<name, argument, ...>>
    ret,            \* what the last call returned or raised
    existing_rule,  \* add_rule's local existing_rule: <<>> (None) or <<rule>>
    errors,         \* the list validate_rules returned last
    df,             \* the table the last processor call returned
    log,            \* the messages the last processor call sent to its log sink
    cus_plan_formula,   \* BlockModelProcessor.cus_plan_formula
    written,        \* the files process_data wrote, in order: [path, lines]
    snapshot        \* the list a caller got from get_all_rules: [items, alias]

vars == <<rules, call, ret, existing_rule, errors, df, log, cus_plan_formula,
          written, snapshot>>

\* what a call on the rule store leaves alone
procVars == <<df, log, cus_plan_formula, written, snapshot>>

----------------------------------------------------------------------------
(* Bounds *)

MaxRules == 2       \* longest rule list the store is grown to
MaxRange == 2       \* rule bounds are drawn from 0..MaxRange
MaxImport == 3      \* longest rule list handed to import_rules_from_dict
MaxRows == 1        \* most rows of a table handed to _apply_capping_rules

Solidos == {"A", "B"}
PasCuts == {"1"}
RangeVals == 0..MaxRange
MultVals == {-1, 0, 2}

\* no list taken from get_all_rules yet; alias tells whether the list is the
\* very list object the store holds
NoSnapshot == [items |-> <<>>, alias |-> FALSE, taken |-> FALSE]

\* What an operation returned or raised
RetNone == "None"
RetTrue == "True"
RetFalse == "False"
RetFrame == "DataFrame"
ErrRange == "ValueError: rango_max debe ser mayor que rango_min"
ErrMult == "ValueError: multiplicador debe ser positivo"
ErrFormat == "ValueError: Formato de reglas invalido"
ValueErrors == {ErrRange, ErrMult, ErrFormat}

----------------------------------------------------------------------------
(* Python list helpers *)

\* list.remove(x): drop the first element equal to x
RECURSIVE ListRemove(_, _)
ListRemove(s, x) ==
    IF s = <<>> THEN <<>>
    ELSE IF Head(s) = x THEN Tail(s)
    ELSE <<Head(s)>> \o ListRemove(Tail(s), x)

\* the list without its i-th element
RemoveAt(s, i) == SubSeq(s, 1, i - 1) \o SubSeq(s, i + 1, Len(s))

\* one step of a stable sort by rango_min: r goes after every element whose
\* key is not greater than its own
RECURSIVE InsertByMin(_, _)
InsertByMin(s, r) ==
    IF s = <<>> THEN <<r>>
    ELSE IF r.rango_min < Head(s).rango_min THEN <<r>> \o s
    ELSE <<Head(s)>> \o InsertByMin(Tail(s), r)

\* a slip: the group left in list order
Unsorted(s) == s

\* list.sort(key=lambda x: x['rango_min']) (stable)
RECURSIVE SortByMin(_)
SortByMin(s) ==
    IF s = <<>> THEN <<>>
    ELSE InsertByMin(SortByMin(SubSeq(s, 1, Len(s) - 1)), s[Len(s)])

----------------------------------------------------------------------------
(* Tables (pandas DataFrame): the column names in order, and the rows, each *)
(* a function from the column names to the cells                            *)

NoTable == [columns |-> <<>>, rows |-> <<>>]

\* a missing number (numpy.nan), as pd.to_numeric(errors='coerce') yields it;
\* it compares false with every number and every product with it is missing
NaN == -1

FMul(a, b) == IF a = NaN \/ b = NaN THEN NaN ELSE a * b
FGe(a, b) == a # NaN /\ b # NaN /\ a >= b
FLt(a, b) == a # NaN /\ b # NaN /\ a < b

\* the row with cell v in column c
SetCell(row, c, v) ==
    [x \in DOMAIN row \cup {c} |-> IF x = c THEN v ELSE row[x]]

\* the column names after an assignment to column c: a new column goes last
WithColumn(columns, c) ==
    IF \E i \in DOMAIN columns : columns[i] = c THEN columns
    ELSE Append(columns, c)

----------------------------------------------------------------------------
(* RulesManager *)

Rule(solido, pas_cut, rango_min, rango_max, multiplicador) ==
    [solido |-> solido, pas_cut |-> pas_cut, rango_min |-> rango_min,
     rango_max |-> rango_max, multiplicador |-> multiplicador]

SameKey(r1, r2) == r1.solido = r2.solido /\ r1.pas_cut = r2.pas_cut

\* a slip: the bounds compared with <= and >=, so that ranges that only touch
\* count as overlapping
RangesOverlapClosed(new_rule, rule) ==
    new_rule.rango_min <= rule.rango_max /\ new_rule.rango_max >= rule.rango_min

\* the overlap test of _find_overlapping_rule
RangesOverlap(new_rule, rule) ==
    new_rule.rango_min < rule.rango_max /\ new_rule.rango_max > rule.rango_min

\* _find_overlapping_rule: the first rule of the list with the key of
\* new_rule and an overlapping range, as <<rule>>; <<>> stands for None
RECURSIVE _find_overlapping_rule(_, _)
_find_overlapping_rule(rs, new_rule) ==
    IF rs = <<>> THEN <<>>
    ELSE IF SameKey(Head(rs), new_rule) /\ RangesOverlap(new_rule, Head(rs))
         THEN <<Head(rs)>>
    ELSE _find_overlapping_rule(Tail(rs), new_rule)

\* a slip: the range compared with <, so that an empty range passes
AddRuleErrorStrict(rango_min, rango_max, multiplicador) ==
    IF rango_max < rango_min THEN ErrRange
    ELSE IF multiplicador <= 0 THEN ErrMult
    ELSE RetNone

\* a slip: the multiplier compared with <, so that a zero multiplier passes
AddRuleErrorZeroMult(rango_min, rango_max, multiplicador) ==
    IF rango_max <= rango_min THEN ErrRange
    ELSE IF multiplicador < 0 THEN ErrMult
    ELSE RetNone

\* add_rule's "Validaciones basicas": the error raised, RetNone when none is
AddRuleError(rango_min, rango_max, multiplicador) ==
    IF rango_max <= rango_min THEN ErrRange
    ELSE IF multiplicador <= 0 THEN ErrMult
    ELSE RetNone

\* the formula of a new BlockModelProcessor
DefaultFormula == "rst_op * cut_plan"

Init ==
    /\ rules = <<>>
    /\ call = <<"__init__">>
    /\ ret = RetNone
    /\ existing_rule = <<>>
    /\ errors = <<>>
    /\ df = NoTable
    /\ log = <<>>
    /\ cus_plan_formula = DefaultFormula
    /\ written = <<>>
    /\ snapshot = NoSnapshot

\* a slip: every overlapping rule of the key removed
AddResultRemoveAll(rs, new_rule) ==
    LET Keep(r) == ~(SameKey(new_rule, r) /\ RangesOverlap(new_rule, r))
    IN  Append(SelectSeq(rs, Keep), new_rule)

\* rules after a successful add_rule of new_rule
AddResult(rs, new_rule) ==
    LET found == _find_overlapping_rule(rs, new_rule)
    IN  IF found # <<>> THEN Append(ListRemove(rs, found[1]), new_rule)
        ELSE Append(rs, new_rule)

add_rule(solido, pas_cut, rango_min, rango_max, multiplicador) ==
    /\ call' = <<"add_rule", solido, pas_cut, rango_min, rango_max, multiplicador>>
    /\ errors' = <<>>
    /\ IF AddRuleError(rango_min, rango_max, multiplicador) # RetNone
       THEN /\ ret' = AddRuleError(rango_min, rango_max, multiplicador)
            /\ existing_rule' = <<>>
            /\ UNCHANGED rules
       ELSE LET new_rule == Rule(solido, pas_cut, rango_min, rango_max,
                                 multiplicador)
            IN  /\ Len(AddResult(rules, new_rule)) <= MaxRules
                /\ existing_rule' = _find_overlapping_rule(rules, new_rule)
                /\ rules' = AddResult(rules, new_rule)
                /\ ret' = RetNone

\* a slip: the upper bound left out of the comparison
MatchesNoMax(rule, solido, pas_cut, rango_min, rango_max) ==
    /\ rule.solido = solido
    /\ rule.pas_cut = pas_cut
    /\ rule.rango_min = rango_min

\* remove_rule's comparison of a stored rule with the four arguments
Matches(rule, solido, pas_cut, rango_min, rango_max) ==
    /\ rule.solido = solido
    /\ rule.pas_cut = pas_cut
    /\ rule.rango_min = rango_min
    /\ rule.rango_max = rango_max

\* remove_rule's loop: the first rule that matches, as <<rule>>
RECURSIVE FindExact(_, _, _, _, _)
FindExact(rs, solido, pas_cut, rango_min, rango_max) ==
    IF rs = <<>> THEN <<>>
    ELSE IF Matches(Head(rs), solido, pas_cut, rango_min, rango_max)
         THEN <<Head(rs)>>
    ELSE FindExact(Tail(rs), solido, pas_cut, rango_min, rango_max)

remove_rule(solido, pas_cut, rango_min, rango_max) ==
    LET rule_to_remove == FindExact(rules, solido, pas_cut, rango_min, rango_max)
    IN  /\ call' = <<"remove_rule", solido, pas_cut, rango_min, rango_max>>
        /\ errors' = <<>>
        /\ existing_rule' = <<>>
        /\ IF rule_to_remove # <<>>
           THEN /\ rules' = ListRemove(rules, rule_to_remove[1])
                /\ ret' = RetTrue
           ELSE /\ UNCHANGED rules
                /\ ret' = RetFalse

clear_all_rules ==
    /\ call' = <<"clear_all_rules">>
    /\ rules' = <<>>
    /\ ret' = RetNone
    /\ existing_rule' = <<>>
    /\ errors' = <<>>

\* the (solido, pas_cut) keys of a rule list, in order of first appearance
\* (the insertion order of the grouped_rules dictionary)
RECURSIVE GroupKeys(_)
GroupKeys(rs) ==
    IF rs = <<>> THEN <<>>
    ELSE LET k == <<rs[Len(rs)].solido, rs[Len(rs)].pas_cut>>
             before == GroupKeys(SubSeq(rs, 1, Len(rs) - 1))
         IN  IF \E i \in DOMAIN before : before[i] = k THEN before
             ELSE Append(before, k)

\* grouped_rules[key]: the rules of one key, in list order
GroupOf(rs, k) ==
    LET InGroup(r) == r.solido = k[1] /\ r.pas_cut = k[2]
    IN  SelectSeq(rs, InGroup)

\* the errors of one group: one per adjacent pair of the sorted group with
\* current_rule['rango_max'] > next_rule['rango_min']
\* a slip: only the first pair of the sorted group compared
AdjacentErrorsFirstPair(k, group_rules) ==
    IF Len(group_rules) < 2 THEN <<>>
    ELSE IF group_rules[1].rango_max > group_rules[2].rango_min
         THEN <<[solido |-> k[1], pas_cut |-> k[2],
                 current |-> <<group_rules[1].rango_min, group_rules[1].rango_max>>,
                 next |-> <<group_rules[2].rango_min, group_rules[2].rango_max>>]>>
    ELSE <<>>

RECURSIVE AdjacentErrors(_, _)
AdjacentErrors(k, group_rules) ==
    IF Len(group_rules) < 2 THEN <<>>
    ELSE LET current_rule == group_rules[1]
             next_rule == group_rules[2]
             rest == AdjacentErrors(k, Tail(group_rules))
         IN  IF current_rule.rango_max > next_rule.rango_min
             THEN <<[solido |-> k[1], pas_cut |-> k[2],
                     current |-> <<current_rule.rango_min, current_rule.rango_max>>,
                     next |-> <<next_rule.rango_min, next_rule.rango_max>>]>> \o rest
             ELSE rest

RECURSIVE ValidateGroups(_, _)
ValidateGroups(rs, keys) ==
    IF keys = <<>> THEN <<>>
    ELSE AdjacentErrors(Head(keys), SortByMin(GroupOf(rs, Head(keys))))
         \o ValidateGroups(rs, Tail(keys))

\* validate_rules(): the list of error messages
ValidateResult(rs) == ValidateGroups(rs, GroupKeys(rs))

validate_rules ==
    /\ call' = <<"validate_rules">>
    /\ errors' = ValidateResult(rules)
    /\ ret' = "errors"
    /\ existing_rule' = <<>>
    /\ UNCHANGED rules

\* import_rules_from_dict(rules_dict): rules_dict is a record, with or
\* without the field rules
import_rules_from_dict(rules_dict) ==
    /\ call' = <<"import_rules_from_dict">>
    /\ errors' = <<>>
    /\ existing_rule' = <<>>
    /\ IF "rules" \in DOMAIN rules_dict
       THEN /\ rules' = rules_dict.rules
            /\ ret' = RetNone
       ELSE /\ UNCHANGED rules
            /\ ret' = ErrFormat

AddRuleStep ==
    \E solido \in Solidos, pas_cut \in PasCuts, rango_min \in RangeVals,
       rango_max \in RangeVals, multiplicador \in MultVals :
        /\ add_rule(solido, pas_cut, rango_min, rango_max, multiplicador)
        /\ UNCHANGED procVars

RemoveRuleStep ==
    \E solido \in Solidos, pas_cut \in PasCuts, rango_min \in RangeVals,
       rango_max \in RangeVals :
        /\ remove_rule(solido, pas_cut, rango_min, rango_max)
        /\ UNCHANGED procVars

ClearStep == clear_all_rules /\ UNCHANGED procVars

ValidateStep == validate_rules /\ UNCHANGED procVars

Next ==
    \/ AddRuleStep
    \/ RemoveRuleStep
    \/ ClearStep
    \/ ValidateStep

Spec == Init /\ [][Next]_vars

----------------------------------------------------------------------------
(* A store filled by import_rules_from_dict, which checks nothing: the      *)
(* imported list holds any rules, also ones add_rule would have rejected or *)
(* replaced.  One import into the fresh store, then validation.             *)

ImportMults == {2}
ImportRuleSet ==
    {Rule(s, p, mn, mx, m) : s \in Solidos, p \in PasCuts, mn \in RangeVals,
                             mx \in RangeVals, m \in ImportMults}

\* a dictionary as export_rules_to_dict writes it, holding any rule list
ImportStep ==
    /\ call = <<"__init__">>
    /\ \E n \in 0..MaxImport : \E rs \in [1..n -> ImportRuleSet] :
           import_rules_from_dict([rules |-> rs, total_rules |-> n])
    /\ UNCHANGED procVars

\* a dictionary without the field rules
ImportBadStep ==
    /\ call = <<"__init__">>
    /\ import_rules_from_dict([total_rules |-> 0])
    /\ UNCHANGED procVars

NextImport ==
    \/ ImportStep
    \/ ImportBadStep
    \/ ValidateStep

SpecImport == Init /\ [][NextImport]_vars

----------------------------------------------------------------------------
(* BlockModelProcessor._apply_capping_rules *)

LogMsg(msg, n) == [msg |-> msg, n |-> n]

\* a slip: the upper bound of the range taken as inclusive
RuleMaskClosed(row, rule) ==
    /\ row.solido = rule.solido
    /\ row.pas_cut = rule.pas_cut
    /\ FGe(row.cut_op, rule.rango_min)
    /\ (FLt(row.cut_op, rule.rango_max) \/ row.cut_op = rule.rango_max)

\* the mask of one rule on one row.  str(rule['pas_cut']) is the rule's
\* pas_cut itself: the store holds it as a string
RuleMask(row, rule) ==
    /\ row.solido = rule.solido
    /\ row.pas_cut = rule.pas_cut
    /\ FGe(row.cut_op, rule.rango_min)
    /\ FLt(row.cut_op, rule.rango_max)

\* mask.sum()
AffectedRows(rows, rule) == Cardinality({i \in DOMAIN rows : RuleMask(rows[i], rule)})

\* a slip: the multiplier applied to the running cut_plan, so that the
\* multipliers of several matching rules compound
ApplyRuleCompound(rows, rule) ==
    [i \in DOMAIN rows |->
        IF RuleMask(rows[i], rule)
        THEN SetCell(rows[i], "cut_plan", FMul(rows[i].cut_plan, rule.multiplicador))
        ELSE rows[i]]

\* a slip: the product written to cut_op as well
ApplyRuleInPlace(rows, rule) ==
    [i \in DOMAIN rows |->
        IF RuleMask(rows[i], rule)
        THEN SetCell(SetCell(rows[i], "cut_plan",
                             FMul(rows[i].cut_op, rule.multiplicador)),
                     "cut_op", FMul(rows[i].cut_op, rule.multiplicador))
        ELSE rows[i]]

\* df.loc[mask, 'cut_plan'] = df.loc[mask, 'cut_op'] * multiplicador
ApplyRule(rows, rule) ==
    [i \in DOMAIN rows |->
        IF RuleMask(rows[i], rule)
        THEN SetCell(rows[i], "cut_plan", FMul(rows[i].cut_op, rule.multiplicador))
        ELSE rows[i]]

\* a slip: a rule that affects no row counted as applied
SkipRuleCounted(acc) == [acc EXCEPT !.rules_applied = @ + 1]

\* a turn of the loop for a rule whose mask selects no row (affected_rows is
\* 0): no row is written, nothing is counted, nothing is logged
SkipRule(acc) == acc

\* the loop over capping_rules: the rows and the log lines after the rules
\* of rs ran in list order, from the rows and the lines acc holds
RECURSIVE CappingLoop(_, _)
CappingLoop(acc, rs) ==
    IF rs = <<>> THEN acc
    ELSE LET rule == Head(rs)
             affected_rows == AffectedRows(acc.rows, rule)
         IN  IF affected_rows > 0
             THEN CappingLoop([rows |-> ApplyRule(acc.rows, rule),
                               rules_applied |-> acc.rules_applied + 1,
                               log |-> Append(acc.log,
                                              LogMsg("Regla aplicada", affected_rows))],
                              Tail(rs))
             ELSE CappingLoop(SkipRule(acc), Tail(rs))

\* _apply_capping_rules(df, capping_rules, log_callback): the table returned
\* and the lines logged
_apply_capping_rules(table, capping_rules) ==
    LET start == [i \in DOMAIN table.rows |->
                     SetCell(table.rows[i], "cut_plan", table.rows[i].cut_op)]
        done == CappingLoop([rows |-> start, rules_applied |-> 0, log |-> <<>>],
                            capping_rules)
    IN  [df |-> [columns |-> WithColumn(table.columns, "cut_plan"),
                 rows |-> done.rows],
         log |-> Append(done.log,
                        LogMsg("Total de reglas aplicadas", done.rules_applied))]

----------------------------------------------------------------------------
(* The capping engine on the rules of the store: the store is filled by     *)
(* add_rule with well-formed rules, then _apply_capping_rules runs once on  *)
(* a mapped table (get_all_rules() hands it the rule list).                 *)

\* the rules are those of one solido; the rows are of either solido
CapSolidos == {"A"}
CapMults == {2, 3}
CapRuleSet ==
    {r \in [solido : CapSolidos, pas_cut : PasCuts, rango_min : RangeVals,
            rango_max : RangeVals, multiplicador : CapMults] :
        r.rango_max > r.rango_min}

\* the rows of a mapped table: the key of the rules, another pas_cut, another
\* solido; cut_op a number or missing
CapRowKeys == {<<"A", "1">>, <<"A", "2">>, <<"B", "1">>}
CutOps == RangeVals \cup {NaN}
CapRows ==
    {[solido |-> k[1], pas_cut |-> k[2], cut_op |-> c] : k \in CapRowKeys, c \in CutOps}
CapColumns == <<"solido", "pas_cut", "cut_op">>

CappingStep ==
    /\ call[1] # "_apply_capping_rules"
    /\ \E n \in 0..MaxRows : \E rows \in [1..n -> CapRows] :
          \E out \in {_apply_capping_rules([columns |-> CapColumns, rows |-> rows],
                                          rules)} :
              /\ df' = out.df
              /\ log' = out.log
    /\ call' = <<"_apply_capping_rules">>
    /\ ret' = RetFrame
    /\ existing_rule' = <<>>
    /\ errors' = <<>>
    /\ UNCHANGED <<rules, cus_plan_formula, written,
                 snapshot>>

AddWellFormedStep ==
    /\ call[1] # "_apply_capping_rules"
    /\ \E r \in CapRuleSet :
          add_rule(r.solido, r.pas_cut, r.rango_min, r.rango_max, r.multiplicador)
    /\ UNCHANGED procVars

NextCap ==
    \/ AddWellFormedStep
    \/ CappingStep

SpecCap == Init /\ [][NextCap]_vars

----------------------------------------------------------------------------
(* Reading a file: BlockModelProcessor._read_csv_safe                       *)
(*                                                                          *)
(* A file is a list of lines, a line a list of text fields: line 1 the      *)
(* header, lines 2-4 the Vulcan metadata, line 5 onward the records.  A     *)
(* file pd.read_csv cannot parse (it is missing, or empty) is Unreadable.   *)
(* A cell of a table read from a file is [t, n, s]: t the type of the       *)
(* value ("int", "float" or "str"), n its number (NaN when missing or       *)
(* text), s its text.                                                       *)

Unreadable == <<>>

IntTexts == <<"0", "1", "2", "3", "4", "5", "6", "7", "8", "9">>
IsIntText(t) == \E i \in DOMAIN IntTexts : IntTexts[i] = t
IsFloatText(t) == \E i \in DOMAIN IntTexts : IntTexts[i] \o ".0" = t
IsNumText(t) == IsIntText(t) \/ IsFloatText(t)
NumOf(t) ==
    IF IsIntText(t) THEN (CHOOSE i \in DOMAIN IntTexts : IntTexts[i] = t) - 1
    ELSE (CHOOSE i \in DOMAIN IntTexts : IntTexts[i] \o ".0" = t) - 1
IntText(n) == IntTexts[n + 1]

\* the fields pd.read_csv takes for a missing value
NaTexts == {"", "nan", "NaN", "NA"}

Cell(t, n, s) == [t |-> t, n |-> n, s |-> s]

\* an index of columns named c, 0 when there is none
ColumnIndex(columns, c) ==
    IF \E i \in DOMAIN columns : columns[i] = c
    THEN CHOOSE i \in DOMAIN columns : columns[i] = c
    ELSE 0

HasColumn(table, c) == ColumnIndex(table.columns, c) # 0

\* the dtype pd.read_csv infers for column j of the data lines: int64 when
\* every field is an integer, float64 when every field is a number or
\* missing, object otherwise
InferDtype(lines, j) ==
    IF \A i \in DOMAIN lines : IsIntText(lines[i][j]) THEN "int"
    ELSE IF \A i \in DOMAIN lines :
               IsNumText(lines[i][j]) \/ lines[i][j] \in NaTexts
    THEN "float"
    ELSE "str"

\* the value of one field in a column of the dtype
ParseCell(dtype, text) ==
    IF text \in NaTexts THEN Cell("float", NaN, "")
    ELSE IF dtype = "str" THEN Cell("str", NaN, text)
    ELSE Cell(dtype, NumOf(text), "")

\* a slip: no line skipped, the metadata lines read as records
ReadCsvNoSkip(lines) ==
    LET header == lines[1]
        data == Tail(lines)
    IN  [columns |-> header,
         rows |-> [i \in DOMAIN data |->
                      [c \in {header[j] : j \in DOMAIN header} |->
                          LET j == ColumnIndex(header, c)
                          IN  ParseCell(InferDtype(data, j), data[i][j])]]]

\* pd.read_csv(csv_path, skiprows=[1, 2, 3]): the header is line 1, lines
\* 2-4 are dropped, the rest are the rows
ReadCsv(lines) ==
    LET header == lines[1]
        data == SubSeq(lines, 5, Len(lines))
    IN  [columns |-> header,
         rows |-> [i \in DOMAIN data |->
                      [c \in {header[j] : j \in DOMAIN header} |->
                          LET j == ColumnIndex(header, c)
                          IN  ParseCell(InferDtype(data, j), data[i][j])]]]

\* _read_csv_safe: <<>> stands for None
_read_csv_safe(file) ==
    IF file = Unreadable THEN <<>> ELSE <<ReadCsv(file)>>

\* df.empty: no row or no column
IsEmpty(table) == table.rows = <<>> \/ table.columns = <<>>

\* pd.to_numeric(..., errors='coerce') on one cell
ToNumeric(cell) ==
    IF cell.t = "str"
    THEN (IF IsNumText(cell.s) THEN NumOf(cell.s) ELSE NaN)
    ELSE cell.n

\* the text of a number of a float64 column
FloatText(n) == IF n = NaN THEN "nan" ELSE IntText(n) \o ".0"

\* .astype(str) on one cell
AsTypeStr(cell) ==
    IF cell.t = "str" THEN cell.s
    ELSE IF cell.t = "int" THEN IntText(cell.n)
    ELSE FloatText(cell.n)

\* df[c] = value, the same for every row
WithConstColumn(table, c, v) ==
    [columns |-> WithColumn(table.columns, c),
     rows |-> [i \in DOMAIN table.rows |-> SetCell(table.rows[i], c, v)]]

----------------------------------------------------------------------------
(* BlockModelProcessor._map_columns *)

\* column_mapping, as the list of its items in dictionary order:
\* <<standard name, user column>>
ErrColumn(user_col) == "Exception: Columna no encontrada: " \o user_col

\* the first loop: each standard column is a copy of its user column, taken
\* from the table as the earlier copies left it
RECURSIVE CopyColumns(_, _, _)
CopyColumns(df_in, df_mapped, items) ==
    IF items = <<>> THEN [err |-> RetNone, df |-> df_mapped]
    ELSE LET std_name == Head(items)[1]
             user_col == Head(items)[2]
         IN  IF HasColumn(df_in, user_col)
             THEN CopyColumns(df_in,
                      [columns |-> WithColumn(df_mapped.columns, std_name),
                       rows |-> [i \in DOMAIN df_mapped.rows |->
                                    SetCell(df_mapped.rows[i], std_name,
                                            df_mapped.rows[i][user_col])]],
                      Tail(items))
             ELSE [err |-> ErrColumn(user_col), df |-> df_mapped]

required_cols == <<"cut_op", "rst_op", "pas_cut">>
ErrMissing == "Exception: Columnas faltantes despues del mapeo"

\* _map_columns(df, column_mapping, log_callback): the error raised (RetNone
\* when none is) and the mapped table
_map_columns(df_in, column_mapping) ==
    LET copied == CopyColumns(df_in, df_in, column_mapping)
        missing_cols == {i \in DOMAIN required_cols :
                            ~HasColumn(copied.df, required_cols[i])}
        Conv(row) == [c \in DOMAIN row |->
                         IF c \in {"cut_op", "rst_op"} THEN ToNumeric(row[c])
                         ELSE IF c = "pas_cut" THEN AsTypeStr(row[c])
                         ELSE row[c]]
    IN  IF copied.err # RetNone THEN [err |-> copied.err, df |-> NoTable]
        ELSE IF missing_cols # {}
        THEN [err |-> ErrMissing, df |-> NoTable]
        ELSE [err |-> RetNone,
              df |-> [columns |-> copied.df.columns,
                      rows |-> [i \in DOMAIN copied.df.rows |->
                                   Conv(copied.df.rows[i])]]]

----------------------------------------------------------------------------
(* BlockModelProcessor._calculate_cus_plan *)

\* the formulas set_cus_plan_formula is handed: a product with a factor; an
\* expression Python cannot parse; a name that is not bound; a text
\* constant, which evaluates but makes np.isinf raise
FormulaFactor == "rst_op * cut_plan * 2"
FormulaSyntax == "rst_op * "
FormulaName == "rst_op * ley"
FormulaText == "'x'"
Formulas == {FormulaFactor, FormulaSyntax, FormulaName, FormulaText}

\* the formulas whose evaluation raises, in eval or in np.isinf
RaisingFormulas == {FormulaSyntax, FormulaName, FormulaText}

\* eval(self.cus_plan_formula, {"__builtins__": {}}, allowed_names) on a row
EvalFormula(formula, row) ==
    IF formula = FormulaFactor THEN FMul(FMul(row.rst_op, row.cut_plan), 2)
    ELSE NaN

\* a slip: the product taken with cut_op, the value before capping
DefaultCusPlanUncapped(row) == FMul(row.rst_op, row.cut_op)

\* df['rst_op'] * df['cut_plan'] on a row
DefaultCusPlan(row) == FMul(row.rst_op, row.cut_plan)

\* a slip: no fallback, the column is left missing when the formula raises
FallbackCusPlanMissing(row) == NaN

\* the except branch: df['cus_plan'] = df['rst_op'] * df['cut_plan']
FallbackCusPlan(row) == FMul(row.rst_op, row.cut_plan)

\* _calculate_cus_plan(df, log_callback) under the stored formula: the table
\* returned and the lines logged
_calculate_cus_plan(table, formula) ==
    LET used == LogMsg("Formula utilizada", 0)
        direct ==
            [columns |-> WithColumn(table.columns, "cus_plan"),
             rows |-> [i \in DOMAIN table.rows |->
                          SetCell(table.rows[i], "cus_plan",
                                  DefaultCusPlan(table.rows[i]))]]
        evaluated ==
            [columns |-> WithColumn(table.columns, "cus_plan"),
             rows |-> [i \in DOMAIN table.rows |->
                          SetCell(table.rows[i], "cus_plan",
                                  EvalFormula(formula, table.rows[i]))]]
        fallback ==
            [columns |-> WithColumn(table.columns, "cus_plan"),
             rows |-> [i \in DOMAIN table.rows |->
                          SetCell(table.rows[i], "cus_plan",
                                  FallbackCusPlan(table.rows[i]))]]
        InvalidCount(t) ==
            Cardinality({i \in DOMAIN t.rows : t.rows[i].cus_plan = NaN})
        Done(t) ==
            [df |-> t,
             log |-> <<used>>
                     \o (IF InvalidCount(t) > 0
                         THEN <<LogMsg("Advertencia: valores invalidos en cus_plan",
                                       InvalidCount(t))>>
                         ELSE <<>>)
                     \o <<LogMsg("CUS_PLAN calculado", Len(t.rows))>>]
    IN  IF formula = DefaultFormula
        THEN Done(direct)
        ELSE IF formula \in RaisingFormulas
        THEN [df |-> fallback,
              log |-> <<used, LogMsg("Error calculando CUS_PLAN", 0)>>]
        ELSE Done(evaluated)

----------------------------------------------------------------------------
(* BlockModelProcessor.process_block_models *)

ErrNoFile == "Exception: No se pudo procesar ningun archivo CSV"
ErrNoClean == "Exception: No se pudieron limpiar los datos originales"

\* the standard columns of a mapped table, which hold plain values; every
\* other column holds cells as read
StdNames == {"cut_op", "rst_op", "pas_cut", "solido", "cut_plan", "cus_plan"}

MissingCell == Cell("float", NaN, "")

RECURSIVE ConcatColumns(_, _)
ConcatColumns(columns, dfs) ==
    IF dfs = <<>> THEN columns
    ELSE LET RECURSIVE AddAll(_, _)
             AddAll(acc, cs) ==
                 IF cs = <<>> THEN acc
                 ELSE AddAll(WithColumn(acc, Head(cs)), Tail(cs))
         IN  ConcatColumns(AddAll(columns, Head(dfs).columns), Tail(dfs))

\* a slip: the tables taken last to first
RECURSIVE ConcatRowsReversed(_)
ConcatRowsReversed(dfs) ==
    IF dfs = <<>> THEN <<>> ELSE ConcatRowsReversed(Tail(dfs)) \o Head(dfs).rows

RECURSIVE ConcatRows(_)
ConcatRows(dfs) ==
    IF dfs = <<>> THEN <<>> ELSE Head(dfs).rows \o ConcatRows(Tail(dfs))

\* pd.concat(dfs, ignore_index=True): the columns in order of first
\* appearance, the rows in order, a column a table lacks filled with missing
\* values, and an integer column that meets a float or a missing value
\* turned to float
Concat(dfs) ==
    LET columns == ConcatColumns(<<>>, dfs)
        names == {columns[j] : j \in DOMAIN columns}
        rows == ConcatRows(dfs)
        Filled(row, c) == IF c \in DOMAIN row THEN row[c] ELSE MissingCell
        Types(c) == {Filled(rows[i], c).t : i \in DOMAIN rows}
        Upcast(c, cell) ==
            IF cell.t = "int" /\ "float" \in Types(c) /\ "str" \notin Types(c)
            THEN Cell("float", cell.n, "")
            ELSE cell
    IN  [columns |-> columns,
         rows |-> [i \in DOMAIN rows |->
                      [c \in names |->
                          IF c \in StdNames THEN Filled(rows[i], c)
                          ELSE Upcast(c, Filled(rows[i], c))]]]

\* solido_labels.get(csv_path, f"solido_{i}"), i counted from 0; a label of
\* <<>> stands for a path the dictionary lacks
LabelOr(solido_labels, i, default) ==
    IF solido_labels[i] = <<>> THEN default ELSE solido_labels[i][1]

DefaultLabel(i) == "solido_" \o IntText(i - 1)

\* the first loop over csv_files, from file i on: the mapped tables and the
\* lines logged; a file that is unreadable or empty, or whose mapping
\* raises, is logged and skipped
RECURSIVE FirstLoop(_, _, _, _, _)
FirstLoop(i, csv_files, solido_labels, column_mapping, acc) ==
    IF i > Len(csv_files) THEN acc
    ELSE LET started == Append(acc.log, LogMsg("Procesando archivo", i))
             read == _read_csv_safe(csv_files[i])
             mapped == _map_columns(read[1], column_mapping)
             solido_label == LabelOr(solido_labels, i, DefaultLabel(i))
             after ==
                 IF read = <<>>
                 THEN [dfs |-> acc.dfs,
                       log |-> started \o <<LogMsg("Error leyendo CSV", i),
                                            LogMsg("Advertencia: No se pudo leer", i)>>]
                 ELSE IF IsEmpty(read[1])
                 THEN [dfs |-> acc.dfs,
                       log |-> Append(started, LogMsg("Advertencia: No se pudo leer", i))]
                 ELSE IF mapped.err # RetNone
                 THEN [dfs |-> acc.dfs,
                       log |-> Append(started, LogMsg("Error procesando", i))]
                 ELSE [dfs |-> Append(acc.dfs,
                                      WithConstColumn(mapped.df, "solido", solido_label)),
                       log |-> started \o <<LogMsg("Filas leidas", Len(mapped.df.rows)),
                                            LogMsg("Solido asignado", i)>>]
         IN  FirstLoop(i + 1, csv_files, solido_labels, column_mapping, after)

\* the second loop over csv_files, from file i on: the files are read and
\* mapped again, and here an error of the mapping is not caught
RECURSIVE SecondLoop(_, _, _, _)
SecondLoop(i, csv_files, column_mapping, acc) ==
    IF i > Len(csv_files) \/ acc.err # RetNone THEN acc
    ELSE LET df_clean == _read_csv_safe(csv_files[i])
             mapped == _map_columns(df_clean[1], column_mapping)
             after ==
                 IF df_clean = <<>> \/ IsEmpty(df_clean[1]) THEN acc
                 ELSE IF mapped.err # RetNone
                 THEN [err |-> mapped.err, dfs |-> acc.dfs]
                 ELSE IF ~IsEmpty(mapped.df)
                 THEN [err |-> RetNone, dfs |-> Append(acc.dfs, mapped.df)]
                 ELSE acc
         IN  SecondLoop(i + 1, csv_files, column_mapping, after)

\* result_df[c] = consolidated_df[source], aligned on the row index
WithAlignedColumn(result_df, c, other, source) ==
    [columns |-> WithColumn(result_df.columns, c),
     rows |-> [i \in DOMAIN result_df.rows |->
                  SetCell(result_df.rows[i], c,
                          IF i \in DOMAIN other.rows
                          THEN other.rows[i][source] ELSE NaN)]]

\* process_block_models(csv_files, solido_labels, column_mapping,
\* capping_rules, log_callback) under the stored formula: what it returns or
\* raises, the table returned and the lines logged
process_block_models(csv_files, solido_labels, column_mapping, capping_rules, formula) ==
    LET first == FirstLoop(1, csv_files, solido_labels, column_mapping,
                           [dfs |-> <<>>, log |-> <<>>])
        consolidated_df == Concat(first.dfs)
        log1 == first.log \o <<LogMsg("Total de filas consolidadas",
                                      Len(consolidated_df.rows))>>
        capped == _apply_capping_rules(consolidated_df, capping_rules)
        derived == _calculate_cus_plan(capped.df, formula)
        log2 == log1 \o capped.log \o derived.log
        second == SecondLoop(1, csv_files, column_mapping,
                             [err |-> RetNone, dfs |-> <<>>])
        result_df ==
            WithAlignedColumn(
                WithAlignedColumn(
                    WithAlignedColumn(Concat(second.dfs),
                                      "SOLIDO", derived.df, "solido"),
                    "CUT_PLAN", derived.df, "cut_plan"),
                "CUS_PLAN", derived.df, "cus_plan")
    IN  IF first.dfs = <<>>
        THEN [ret |-> ErrNoFile, df |-> NoTable, log |-> first.log]
        ELSE IF second.err # RetNone
        THEN [ret |-> second.err, df |-> NoTable, log |-> log2]
        ELSE IF second.dfs = <<>>
        THEN [ret |-> ErrNoClean, df |-> NoTable, log |-> log2]
        ELSE [ret |-> RetFrame, df |-> result_df,
              log |-> Append(log2, LogMsg("Procesamiento completado exitosamente", 0))]

----------------------------------------------------------------------------
(* BlockModelProcessor.process_individual_file *)

\* the text .astype(str) gives a value of a column pd.to_numeric returned:
\* the column is int64 when the column read was, float64 otherwise
NumericText(cell) ==
    IF cell.t = "int" THEN IntText(cell.n) ELSE FloatText(ToNumeric(cell))

\* the loop over column_mapping: each standard column is the numeric
\* coercion of its user column of the table as read
RECURSIVE CoerceColumns(_, _, _)
CoerceColumns(df_in, df_work, items) ==
    IF items = <<>> THEN [err |-> RetNone, df |-> df_work]
    ELSE LET std_name == Head(items)[1]
             user_col == Head(items)[2]
         IN  IF HasColumn(df_in, user_col)
             THEN CoerceColumns(df_in,
                      [columns |-> WithColumn(df_work.columns, std_name),
                       rows |-> [i \in DOMAIN df_work.rows |->
                                    SetCell(df_work.rows[i], std_name,
                                            IF std_name = "pas_cut"
                                            THEN df_in.rows[i][user_col]
                                            ELSE ToNumeric(df_in.rows[i][user_col]))]],
                      Tail(items))
             ELSE [err |-> ErrColumn(user_col), df |-> df_work]

\* process_individual_file(csv_path, solido_label, column_mapping,
\* capping_rules, log_callback) under the stored formula; every exception
\* is caught, logged, and answered with None
process_individual_file(file, solido_label, column_mapping, capping_rules, formula) ==
    LET read == _read_csv_safe(file)
        df_in == read[1]
        coerced == CoerceColumns(df_in, df_in, column_mapping)
        typed == [columns |-> coerced.df.columns,
                  rows |-> [i \in DOMAIN coerced.df.rows |->
                               SetCell(coerced.df.rows[i], "pas_cut",
                                       NumericText(coerced.df.rows[i].pas_cut))]]
        df_work == WithConstColumn(typed, "solido", solido_label)
        capped == _apply_capping_rules(df_work, capping_rules)
        derived == _calculate_cus_plan(capped.df, formula)
        result_df ==
            WithAlignedColumn(
                WithAlignedColumn(
                    WithAlignedColumn(df_in, "SOLIDO", derived.df, "solido"),
                    "CUT_PLAN", derived.df, "cut_plan"),
                "CUS_PLAN", derived.df, "cus_plan")
    IN  IF read = <<>>
        THEN [ret |-> RetNone, df |-> NoTable,
              log |-> <<LogMsg("Error leyendo CSV", 0),
                        LogMsg("No se pudo leer el archivo", 0)>>]
        ELSE IF IsEmpty(df_in)
        THEN [ret |-> RetNone, df |-> NoTable,
              log |-> <<LogMsg("No se pudo leer el archivo", 0)>>]
        ELSE IF coerced.err # RetNone
        THEN [ret |-> RetNone, df |-> NoTable, log |-> <<LogMsg("Error", 0)>>]
        ELSE IF ~HasColumn(coerced.df, "pas_cut")
        THEN [ret |-> RetNone, df |-> NoTable, log |-> <<LogMsg("Error", 0)>>]
        ELSE [ret |-> RetFrame, df |-> result_df,
              log |-> <<LogMsg("Filas leidas", Len(df_work.rows))>>
                      \o capped.log \o derived.log
                      \o <<LogMsg("Nuevas columnas agregadas", 3)>>]

----------------------------------------------------------------------------
(* BlockModelProcessor.set_cus_plan_formula, and the processor driven *)

set_cus_plan_formula(formula) ==
    /\ cus_plan_formula' = formula
    /\ call' = <<"set_cus_plan_formula", formula>>
    /\ ret' = RetNone
    /\ UNCHANGED <<rules, existing_rule, errors, df, log, written,
                 snapshot>>

\* the files handed to the processor: the columns CUT, RST and STAGE, three
\* metadata lines, and up to MaxRows records
Header == <<"CUT", "RST", "STAGE">>
MetaLines == <<<<"#VULCAN_EXPORT", "", "">>, <<"#UNITS:", "", "">>,
               <<"#RANGES:", "", "">>>>

\* records: one inside the rules' ranges; one above them, its RST empty; one
\* whose CUT and STAGE are text
DataLines == {<<"1", "3", "1">>, <<"2", "", "1">>, <<"x", "3", "N">>}

\* a file without the STAGE column
NoStageFile == <<<<"CUT", "RST">>, <<"#VULCAN_EXPORT", "">>, <<"#UNITS:", "">>,
                 <<"#RANGES:", "">>, <<"1", "3">>>>

\* a file a run in per-file mode wrote: it has the three computed columns
ProcessedFile ==
    <<<<"CUT", "RST", "STAGE", "SOLIDO", "CUT_PLAN", "CUS_PLAN">>,
      <<"#VULCAN_EXPORT", "", "", "", "", "">>,
      <<"#UNITS:", "", "", "", "", "">>,
      <<"#RANGES:", "", "", "", "", "">>,
      <<"1", "3", "1", "B", "1", "3">>>>

MaxFiles == 2       \* most files handed to process_block_models

Files ==
    {Unreadable, NoStageFile, ProcessedFile}
    \cup UNION {{<<Header>> \o MetaLines \o data : data \in [1..n -> DataLines]} :
                   n \in 0..MaxRows}

\* the mapping main.py hands over, in the order of its keys
ColumnMapping == <<<<"cut_op", "CUT">>, <<"rst_op", "RST">>, <<"pas_cut", "STAGE">>>>

\* the rule lists handed over as capping_rules
PipeRuleLists == {<<>>,
                  <<Rule("A", "1", 1, 2, 2), Rule("A", "1", 0, 2, 3)>>}

\* solido_labels for n files: the last file labelled A, or no file labelled
LabelChoices(n) == {[i \in 1..n |-> IF i = n THEN <<"A">> ELSE <<>>],
                    [i \in 1..n |-> <<>>]}

\* the formula is set on a new processor, and the processor is run once
Configuring == call[1] \in {"__init__", "set_cus_plan_formula"}

SetFormulaStep ==
    /\ call[1] = "__init__"
    /\ \E formula \in Formulas : set_cus_plan_formula(formula)

BlockModelsStep ==
    /\ Configuring
    /\ \E n \in 0..MaxFiles : \E csv_files \in [1..n -> Files] :
       \E solido_labels \in LabelChoices(n) : \E capping_rules \in PipeRuleLists :
          \E out \in {process_block_models(csv_files, solido_labels, ColumnMapping,
                                          capping_rules, cus_plan_formula)} :
              /\ call' = <<"process_block_models", capping_rules, csv_files,
                           solido_labels>>
              /\ ret' = out.ret
              /\ df' = out.df
              /\ log' = out.log
    /\ UNCHANGED <<rules, existing_rule, errors, cus_plan_formula, written,
                 snapshot>>

IndividualFileStep ==
    /\ Configuring
    /\ \E file \in Files : \E solido_label \in {"A", "unknown"} :
       \E capping_rules \in PipeRuleLists :
          \E out \in {process_individual_file(file, solido_label, ColumnMapping,
                                             capping_rules, cus_plan_formula)} :
              /\ call' = <<"process_individual_file", capping_rules, file,
                           solido_label>>
              /\ ret' = out.ret
              /\ df' = out.df
              /\ log' = out.log
    /\ UNCHANGED <<rules, existing_rule, errors, cus_plan_formula, written,
                 snapshot>>

NextProc == SetFormulaStep \/ BlockModelsStep \/ IndividualFileStep

SpecProc == Init /\ [][NextProc]_vars

----------------------------------------------------------------------------
(* MiniConsolaApp: _get_metadata_rows and _save_csv_with_metadata           *)

\* _get_metadata_rows(csv_path): pd.read_csv(csv_path, nrows=5, header=None)
\* and, when 4 lines or more were read, the lines 2-4; every column of that
\* read holds the header's text, so that a field is kept as its text and a
\* missing field is NaN.  <<>> stands for the empty frame, which is also the
\* answer when the read raises
_get_metadata_rows(file) ==
    IF file = Unreadable \/ Len(file) < 4 THEN <<>>
    ELSE [k \in 1..3 |->
             [j \in DOMAIN file[k + 1] |-> ParseCell("str", file[k + 1][j])]]

\* the columns the processor computes, by the type of their values
TextColumns == {"SOLIDO", "solido", "pas_cut"}
NumberColumns == {"CUT_PLAN", "CUS_PLAN", "cut_op", "rst_op", "cut_plan", "cus_plan"}

\* the field to_csv writes for row i of column c: a missing value is the
\* empty field; a number of a computed column is written as a float when
\* its column holds a missing value, a cell as read by its own type
ToCsvField(df_data, c, i) ==
    LET v == df_data.rows[i][c]
    IN  IF c \in TextColumns THEN v
        ELSE IF c \in NumberColumns
        THEN (IF v = NaN THEN ""
              ELSE IF \E k \in DOMAIN df_data.rows : df_data.rows[k][c] = NaN
              THEN FloatText(v)
              ELSE IntText(v))
        ELSE IF v.t = "str" THEN v.s
        ELSE IF v.n = NaN THEN ""
        ELSE AsTypeStr(v)

\* df_data.to_csv(f, header=False, index=False)
ToCsvData(df_data) ==
    [i \in DOMAIN df_data.rows |->
        [j \in DOMAIN df_data.columns |-> ToCsvField(df_data, df_data.columns[j], i)]]

\* df_data.to_csv(output_path, index=False)
ToCsvPlain(df_data) == <<df_data.columns>> \o ToCsvData(df_data)

\* one metadata line of the output: str(row.iloc[i]) for the columns the
\* metadata row has, '' for the columns past it
MetadataLine(row, columns) ==
    [i \in DOMAIN columns |-> IF i <= Len(row) THEN AsTypeStr(row[i]) ELSE ""]

ErrWrite == "PermissionError"

\* _save_csv_with_metadata(df_data, output_path, reference_csv_path): the
\* lines of the file written.  When output_path cannot be written the open
\* raises, and so does the to_csv of the except branch
_save_csv_with_metadata(df_data, writable, reference) ==
    LET metadata_df == _get_metadata_rows(reference)
    IN  IF ~writable THEN [err |-> ErrWrite, lines |-> <<>>]
        ELSE IF metadata_df = <<>>
        THEN [err |-> RetNone, lines |-> ToCsvPlain(df_data)]
        ELSE [err |-> RetNone,
              lines |-> <<df_data.columns>>
                        \o [k \in 1..3 |-> MetadataLine(metadata_df[k], df_data.columns)]
                        \o ToCsvData(df_data)]

----------------------------------------------------------------------------
(* MiniConsolaApp.process_data                                              *)
(*                                                                          *)
(* The arguments of a run are gathered in a record a: csv_files,            *)
(* solido_labels, column_mapping, save_mode, the rules of the store, the    *)
(* processor's formula, and locked: the index of the file whose output path *)
(* cannot be written, 0 when every path can.                                *)

ShowInfo == "messagebox.showinfo"
ShowError(msg) == "messagebox.showerror: " \o msg
ErrNoCsv == "No hay archivos CSV seleccionados"
ErrUnmapped == "Debe mapear todas las columnas requeridas"
ErrNoneProcessed == "Exception: No se pudo procesar ningun archivo"

SaveModes == {"consolidate_all", "create_duplicates", "update_original"}

\* the path written for file i: a copy with the suffix _capeado, or the
\* file itself
OutputPath(save_mode, i) ==
    IF save_mode = "create_duplicates" THEN <<"_capeado", i>> ELSE <<"original", i>>

\* blockmodel_capeado.csv in the directory of the first file
ConsolidatedPath == <<"blockmodel_capeado.csv", 1>>

\* the end of a turn of the loop, given the result of the file (out) and
\* of the save (saved): an absent or empty result, and an exception, are
\* logged and the file is skipped
PerFileSaved(i, a, acc, out, saved) ==
    LET started == Append(acc.log, LogMsg("Procesando", i)) \o out.log
    IN  IF out.ret = RetNone \/ IsEmpty(out.df)
        THEN [written |-> acc.written, failed |-> TRUE,
              log |-> Append(started, LogMsg("No se pudo procesar", i))]
        ELSE IF saved.err # RetNone
        THEN [written |-> acc.written, failed |-> TRUE,
              log |-> started \o <<LogMsg("Error guardando CSV con metadata", i),
                                   LogMsg("Error procesando", i)>>]
        ELSE [written |-> Append(acc.written,
                                 [path |-> OutputPath(a.save_mode, i),
                                  lines |-> saved.lines]),
              failed |-> FALSE,
              log |-> started
                      \o (IF Len(saved.lines) = Len(out.df.rows) + 1 THEN <<>>
                          ELSE <<LogMsg("CSV guardado con metadata incluida", i)>>)
                      \o <<LogMsg("Guardado", Len(out.df.rows))>>]

\* the file processed, then saved with itself as the reference
PerFileProcessed(i, a, acc, out) ==
    PerFileSaved(i, a, acc, out,
                 _save_csv_with_metadata(out.df, i # a.locked, a.csv_files[i]))

\* one turn of the loop over csv_files
PerFileTurn(i, a, acc) ==
    PerFileProcessed(i, a, acc,
                     process_individual_file(a.csv_files[i],
                                             LabelOr(a.solido_labels, i, "unknown"),
                                             a.column_mapping, a.capping_rules,
                                             a.formula))

\* a slip: the loop left at the first file that fails
RECURSIVE PerFileLoopAbort(_, _, _)
PerFileLoopAbort(i, a, acc) ==
    IF i > Len(a.csv_files) \/ acc.failed THEN acc
    ELSE PerFileLoopAbort(i + 1, a, PerFileTurn(i, a, acc))

\* for i, csv_path in enumerate(self.csv_files, 1), from file i on
RECURSIVE PerFileLoop(_, _, _)
PerFileLoop(i, a, acc) ==
    IF i > Len(a.csv_files) THEN acc
    ELSE PerFileLoop(i + 1, a, PerFileTurn(i, a, acc))

\* process_data raising msg after the lines were logged: the outer except
Raised(msg, lines) ==
    [ret |-> ShowError(msg), written |-> <<>>,
     log |-> Append(lines, LogMsg("Error durante el procesamiento", 0))]

StartLog == <<LogMsg("Iniciando procesamiento", 0)>>

\* the branch consolidate_all, given the result of process_block_models
\* (block) and of the save (saved)
ConsolidateSaved(block, saved) ==
    IF block.ret # RetFrame
    THEN Raised(block.ret, StartLog \o block.log)
    ELSE IF saved.err # RetNone
    THEN Raised(saved.err,
                StartLog \o block.log
                \o <<LogMsg("Error guardando CSV con metadata", 0)>>)
    ELSE [ret |-> ShowInfo,
          written |-> <<[path |-> ConsolidatedPath, lines |-> saved.lines]>>,
          log |-> StartLog \o block.log
                  \o <<LogMsg("Archivo consolidado guardado", 0),
                       LogMsg("Total de filas procesadas", Len(block.df.rows)),
                       LogMsg("Procesamiento completado exitosamente", 0)>>]

\* the table consolidated, then saved with the first file as the reference
Consolidated(a, block) ==
    ConsolidateSaved(block,
                     _save_csv_with_metadata(block.df, a.locked # 1, a.csv_files[1]))

\* the branch of the per-file modes after its loop
PerFileEnd(loop) ==
    IF loop.written # <<>>
    THEN [ret |-> ShowInfo, written |-> loop.written,
          log |-> loop.log
                  \o <<LogMsg("Procesamiento completado", Len(loop.written)),
                       LogMsg("Procesamiento completado exitosamente", 0)>>]
    ELSE Raised(ErrNoneProcessed, loop.log)

\* process_data(): the message box shown, the files written and the lines
\* logged
process_data(a) ==
    IF a.csv_files = <<>>
    THEN [ret |-> ShowError(ErrNoCsv), written |-> <<>>, log |-> <<>>]
    ELSE IF \E k \in DOMAIN a.column_mapping : a.column_mapping[k][2] = ""
    THEN [ret |-> ShowError(ErrUnmapped), written |-> <<>>, log |-> <<>>]
    ELSE IF a.save_mode = "consolidate_all"
    THEN Consolidated(a, process_block_models(a.csv_files, a.solido_labels,
                                              a.column_mapping, a.capping_rules,
                                              a.formula))
    ELSE PerFileEnd(PerFileLoop(1, a, [written |-> <<>>, failed |-> FALSE,
                                       log |-> StartLog]))

\* the files of a run: one that cannot be read, one of two lines, one
\* without the STAGE column, one a run wrote before, and one with two
\* records, the second without RST
ShortFile == <<Header, <<"#VULCAN_EXPORT", "", "">>>>
GoodFile == <<Header>> \o MetaLines \o <<<<"1", "3", "1">>, <<"2", "", "1">>>>
DataFiles == {Unreadable, ShortFile, NoStageFile, ProcessedFile, GoodFile}

\* the mapping when the rst_op selector is left empty
UnmappedMapping == <<<<"cut_op", "CUT">>, <<"rst_op", "">>, <<"pas_cut", "STAGE">>>>

\* the rules the store is filled with before a run
DataRuleSet == {Rule("A", "1", 1, 2, 2), Rule("unknown", "1", 0, 2, 3)}

\* a slip: a rule marked as spent once the loop has read it
RuleAfterCappingSpent(rule) == [rule EXCEPT !.multiplicador = 1]

\* a rule dictionary once the loop of _apply_capping_rules has read it: the
\* loop reads its five keys and assigns none
RuleAfterCapping(rule) == rule

\* the run reached _apply_capping_rules: its closing message is in the log
CappingLogged(lines) ==
    \E k \in DOMAIN lines : lines[k].msg = "Total de reglas aplicadas"

\* the store after a run: get_all_rules() hands the processor a new list of
\* the store's own dictionaries, so the store keeps its entries in place,
\* each as the capping loop left it
StoreAfterRun(store, lines) ==
    IF CappingLogged(lines)
    THEN [i \in DOMAIN store |-> RuleAfterCapping(store[i])]
    ELSE store

LoadRuleStep ==
    /\ call[1] # "process_data"
    /\ \E r \in DataRuleSet :
          add_rule(r.solido, r.pas_cut, r.rango_min, r.rango_max, r.multiplicador)
    /\ UNCHANGED procVars

ProcessDataStep ==
    /\ call[1] # "process_data"
    /\ \E n \in 0..MaxFiles : \E csv_files \in [1..n -> DataFiles] :
       \E solido_labels \in LabelChoices(n) :
       \E column_mapping \in {ColumnMapping, UnmappedMapping} :
       \E save_mode \in SaveModes : \E locked \in 0..n :
          \E out \in {process_data([csv_files |-> csv_files,
                                    solido_labels |-> solido_labels,
                                    column_mapping |-> column_mapping,
                                    save_mode |-> save_mode,
                                    locked |-> locked,
                                    capping_rules |-> rules,
                                    formula |-> cus_plan_formula])} :
              /\ call' = <<"process_data", rules, csv_files, solido_labels,
                           save_mode, locked, column_mapping>>
              /\ ret' = out.ret
              /\ written' = out.written
              /\ log' = out.log
              /\ rules' = StoreAfterRun(rules, out.log)
    /\ df' = NoTable
    /\ UNCHANGED <<existing_rule, errors, cus_plan_formula, snapshot>>

NextData == LoadRuleStep \/ ProcessDataStep

SpecData == Init /\ [][NextData]_vars

----------------------------------------------------------------------------
(* The log sink of the processor: the wrapper log(msg) of                   *)
(* process_block_models and process_individual_file, which is what every    *)
(* helper is handed as its log_callback                                     *)

\* log_callback: omitted (None), a function that drops the message, a
\* function that records it
SinkNone == "None"
SinkNoop == "lambda msg: None"
SinkRecording == "recording"
Sinks == {SinkNone, SinkNoop, SinkRecording}

ErrNotCallable == "TypeError: 'NoneType' object is not callable"

\* a slip: log_callback(msg) without the test, which raises when the sink
\* is omitted
LogRaisesUnguarded(log_callback) == log_callback = SinkNone

\* def log(msg): if log_callback: log_callback(msg) -- whether a call of
\* the wrapper raises
LogRaises(log_callback) == FALSE

\* a processor call under a sink, given what it returns and logs under a
\* recording sink: the wrapper is called for every line, and an exception
\* of the wrapper leaves the call, as the except branches call it again
WithSink(out, log_callback) ==
    IF out.log # <<>> /\ LogRaises(log_callback)
    THEN [ret |-> ErrNotCallable, df |-> NoTable, log |-> <<>>]
    ELSE [ret |-> out.ret, df |-> out.df,
          log |-> IF log_callback = SinkRecording THEN out.log ELSE <<>>]

BlockModelsSinkStep ==
    /\ Configuring
    /\ \E n \in 0..MaxFiles : \E csv_files \in [1..n -> DataFiles] :
       \E solido_labels \in LabelChoices(n) : \E capping_rules \in PipeRuleLists :
       \E log_callback \in Sinks :
          \E out \in {WithSink(process_block_models(csv_files, solido_labels,
                                                    ColumnMapping, capping_rules,
                                                    cus_plan_formula),
                               log_callback)} :
              /\ call' = <<"process_block_models", capping_rules, csv_files,
                           solido_labels, log_callback>>
              /\ ret' = out.ret
              /\ df' = out.df
              /\ log' = out.log
    /\ UNCHANGED <<rules, existing_rule, errors, cus_plan_formula, written,
                 snapshot>>

IndividualFileSinkStep ==
    /\ Configuring
    /\ \E file \in DataFiles : \E solido_label \in {"A", "unknown"} :
       \E capping_rules \in PipeRuleLists : \E log_callback \in Sinks :
          \E out \in {WithSink(process_individual_file(file, solido_label,
                                                       ColumnMapping, capping_rules,
                                                       cus_plan_formula),
                               log_callback)} :
              /\ call' = <<"process_individual_file", capping_rules, file,
                           solido_label, log_callback>>
              /\ ret' = out.ret
              /\ df' = out.df
              /\ log' = out.log
    /\ UNCHANGED <<rules, existing_rule, errors, cus_plan_formula, written,
                 snapshot>>

NextSink == BlockModelsSinkStep \/ IndividualFileSinkStep

SpecSink == Init /\ [][NextSink]_vars

----------------------------------------------------------------------------
(* The reader on files of any metadata                                      *)

\* lines 2-4 of a file: a Vulcan line, a line that reads as a record, a
\* line of text
MetaChoices == {<<"#VULCAN_EXPORT", "", "">>, <<"1", "3", "1">>, <<"x", "", "N">>}

ReadFiles ==
    {Unreadable}
    \cup {<<Header>> \o meta \o data :
             meta \in [1..3 -> MetaChoices],
             data \in UNION {[1..n -> DataLines] : n \in 0..MaxRows}}

InitRead ==
    /\ rules = <<>>
    /\ call \in {<<"csv_path", file>> : file \in ReadFiles}
    /\ ret = RetNone
    /\ existing_rule = <<>>
    /\ errors = <<>>
    /\ df = NoTable
    /\ log = <<>>
    /\ cus_plan_formula = DefaultFormula
    /\ written = <<>>
    /\ snapshot = NoSnapshot

\* _read_csv_safe(csv_path, log_callback) on the file at csv_path
ReadStep ==
    /\ call[1] = "csv_path"
    /\ \E out \in {_read_csv_safe(call[2])} :
          /\ ret' = IF out = <<>> THEN RetNone ELSE RetFrame
          /\ df' = IF out = <<>> THEN NoTable ELSE out[1]
          /\ log' = IF out = <<>> THEN <<LogMsg("Error leyendo CSV", 0)>>
                    ELSE <<LogMsg("CSV leido saltando filas metadata (2-4)", 0)>>
    /\ call' = <<"_read_csv_safe", call[2]>>
    /\ UNCHANGED <<rules, existing_rule, errors, cus_plan_formula, written,
                 snapshot>>

NextRead == ReadStep

SpecRead == InitRead /\ [][NextRead]_vars

----------------------------------------------------------------------------
(* The mapper on raw tables of any column names                             *)

\* the headers of the raw tables: each column under a user's name or under
\* the name of a standard column
MapHeaders ==
    {<<a, b, c>> : a \in {"CUT", "cut_op"}, b \in {"RST", "rst_op"},
                   c \in {"STAGE", "pas_cut"}}

RawTables ==
    {ReadCsv(<<header>> \o MetaLines \o data) :
        header \in MapHeaders,
        data \in UNION {[1..n -> DataLines] : n \in 0..MaxRows}}

\* the mappings: each standard name mapped to a column of the table, or to
\* a column it lacks
MapChoices(columns) ==
    LET names == {columns[j] : j \in DOMAIN columns} \cup {"LEY"}
    IN  {<<<<"cut_op", a>>, <<"rst_op", b>>, <<"pas_cut", c>>>> :
            a \in names, b \in names, c \in names}

\* the table handed to _map_columns, after the call: the function works on
\* df.copy()
MapInputAfter(df_in) == df_in

InitMap ==
    /\ rules = <<>>
    /\ call \in {<<"df", table, column_mapping>> :
                    table \in RawTables,
                    column_mapping \in UNION {MapChoices(h) : h \in MapHeaders}}
    /\ ret = RetNone
    /\ existing_rule = <<>>
    /\ errors = <<>>
    /\ df = NoTable
    /\ log = <<>>
    /\ cus_plan_formula = DefaultFormula
    /\ written = <<>>
    /\ snapshot = NoSnapshot

\* _map_columns(df, column_mapping, log_callback); the call is recorded as
\* <<name, df after the call, column_mapping, df before the call>>
MapStep ==
    /\ call[1] = "df"
    /\ \E out \in {_map_columns(call[2], call[3])} :
          /\ ret' = IF out.err # RetNone THEN out.err ELSE RetFrame
          /\ df' = out.df
          /\ log' = IF out.err # RetNone THEN <<>>
                    ELSE <<LogMsg("Columnas mapeadas", 3),
                           LogMsg("Columnas originales preservadas en resultado final", 0)>>
    /\ call' = <<"_map_columns", MapInputAfter(call[2]), call[3], call[2]>>
    /\ UNCHANGED <<rules, existing_rule, errors, cus_plan_formula, written,
                 snapshot>>

NextMap == MapStep

SpecMap == InitMap /\ [][NextMap]_vars

-----------------------------------------------------------------------------
(* MiniConsolaApp.edit_capping_rule and the dialog's save_rule *)

\* the message save_rule shows for values it rejects, RetNone when it
\* accepts them
SaveRuleError(solido, pas_cut, rango_min, rango_max, multiplicador) ==
    IF solido = "" THEN ShowError("Debe seleccionar un Solido")
    ELSE IF pas_cut = "" THEN ShowError("Debe seleccionar un valor de Pas Cut")
    ELSE IF rango_max <= rango_min
         THEN ShowError("Rango Maximo debe ser mayor que Rango Minimo")
    ELSE IF multiplicador <= 0 THEN ShowError("Multiplicador debe ser mayor que 0")
    ELSE RetNone

\* the dialog opened on existing_values and saved with the five values: the
\* only call on the store is add_rule
save_rule(existing_values, solido, pas_cut, rango_min, rango_max, multiplicador) ==
    /\ call' = <<"save_rule", existing_values, solido, pas_cut, rango_min,
                 rango_max, multiplicador>>
    /\ errors' = <<>>
    /\ IF SaveRuleError(solido, pas_cut, rango_min, rango_max, multiplicador)
          # RetNone
       THEN /\ ret' = SaveRuleError(solido, pas_cut, rango_min, rango_max,
                                    multiplicador)
            /\ existing_rule' = <<>>
            /\ UNCHANGED <<rules, log>>
       ELSE LET new_rule == Rule(solido, pas_cut, rango_min, rango_max,
                                 multiplicador)
            IN  /\ Len(AddResult(rules, new_rule)) <= MaxRules + 1
                /\ existing_rule' = _find_overlapping_rule(rules, new_rule)
                /\ rules' = AddResult(rules, new_rule)
                /\ log' = Append(log, LogMsg("Regla agregada", multiplicador))
                /\ ret' = RetNone

\* edit_capping_rule: the selected row of the rules view, which shows the
\* store, opens the dialog
edit_capping_rule(item, solido, pas_cut, rango_min, rango_max, multiplicador) ==
    save_rule(rules[item], solido, pas_cut, rango_min, rango_max, multiplicador)

\* The rules the editor's store is loaded with
EditRuleSet ==
    {Rule("A", "1", 0, 1, 2), Rule("A", "1", 1, 2, 2), Rule("B", "1", 0, 2, 2)}

LoadEditStep ==
    /\ call[1] # "save_rule"
    /\ \E r \in EditRuleSet :
          add_rule(r.solido, r.pas_cut, r.rango_min, r.rango_max, r.multiplicador)
    /\ UNCHANGED procVars

EditRuleStep ==
    /\ call[1] # "save_rule"
    /\ \E item \in DOMAIN rules :
       \E solido \in Solidos \cup {""}, pas_cut \in PasCuts \cup {""},
          rango_min \in RangeVals, rango_max \in RangeVals,
          multiplicador \in MultVals :
          edit_capping_rule(item, solido, pas_cut, rango_min, rango_max,
                            multiplicador)
    /\ UNCHANGED <<df, cus_plan_formula, written,
                 snapshot>>

NextEdit == LoadEditStep \/ EditRuleStep

SpecEdit == Init /\ [][NextEdit]_vars

----------------------------------------------------------------------------
(* RulesManager.get_all_rules and the list it hands out *)

\* a slip: the list of the store handed out itself
GetAllRulesShared(rs) == [items |-> rs, alias |-> TRUE, taken |-> TRUE]

\* get_all_rules returns self.rules.copy(): a new list with the same entries
\* in the same order
GetAllRules(rs) == [items |-> rs, alias |-> FALSE, taken |-> TRUE]

get_all_rules ==
    /\ call' = <<"get_all_rules">>
    /\ snapshot' = GetAllRules(rules)
    /\ ret' = "list"
    /\ existing_rule' = <<>>
    /\ errors' = <<>>
    /\ UNCHANGED rules

\* the list a caller holds after the store changed self.rules in place
\* (list.remove, list.append) to new_rules: it follows only when it is that
\* list
AfterInPlace(held, new_rules) ==
    IF held.alias THEN [held EXCEPT !.items = new_rules] ELSE held

\* the list a caller holds after the store bound self.rules to a new list
AfterRebind(held) == [held EXCEPT !.alias = FALSE]

\* the list of the store after the caller changed its own list in place
StoreAfterCaller(held_after) == IF held_after.alias THEN held_after.items ELSE rules

\* The rules the store is loaded with, and a rule the caller makes up
SnapRuleSet ==
    {Rule("A", "1", 0, 1, 2), Rule("A", "1", 0, 2, 3), Rule("B", "1", 1, 2, 2)}
CallerRule == Rule("C", "1", 0, 1, 2)

SnapAddStep ==
    /\ \E r \in SnapRuleSet :
          add_rule(r.solido, r.pas_cut, r.rango_min, r.rango_max, r.multiplicador)
    /\ snapshot' = AfterInPlace(snapshot, rules')
    /\ UNCHANGED <<df, log, cus_plan_formula, written>>

SnapRemoveStep ==
    /\ \E r \in SnapRuleSet :
          remove_rule(r.solido, r.pas_cut, r.rango_min, r.rango_max)
    /\ snapshot' = AfterInPlace(snapshot, rules')
    /\ UNCHANGED <<df, log, cus_plan_formula, written>>

SnapClearStep ==
    /\ clear_all_rules
    /\ snapshot' = AfterRebind(snapshot)
    /\ UNCHANGED <<df, log, cus_plan_formula, written>>

GetAllRulesStep ==
    /\ get_all_rules
    /\ UNCHANGED <<df, log, cus_plan_formula, written>>

\* the caller appends a rule to the list it holds
CallerAppendStep ==
    /\ snapshot.taken
    /\ Len(snapshot.items) <= MaxRules
    /\ snapshot' = [snapshot EXCEPT !.items = Append(@, CallerRule)]
    /\ rules' = StoreAfterCaller(snapshot')
    /\ call' = <<"snapshot.append", CallerRule>>
    /\ ret' = RetNone
    /\ existing_rule' = <<>>
    /\ errors' = <<>>
    /\ UNCHANGED <<df, log, cus_plan_formula, written>>

\* the caller removes an entry of the list it holds
CallerRemoveStep ==
    /\ snapshot.taken
    /\ \E i \in DOMAIN snapshot.items :
          /\ snapshot' = [snapshot EXCEPT !.items = ListRemove(@, snapshot.items[i])]
          /\ call' = <<"snapshot.remove", snapshot.items[i]>>
    /\ rules' = StoreAfterCaller(snapshot')
    /\ ret' = RetNone
    /\ existing_rule' = <<>>
    /\ errors' = <<>>
    /\ UNCHANGED <<df, log, cus_plan_formula, written>>

NextSnap ==
    \/ SnapAddStep
    \/ SnapRemoveStep
    \/ SnapClearStep
    \/ GetAllRulesStep
    \/ CallerAppendStep
    \/ CallerRemoveStep

SpecSnap == Init /\ [][NextSnap]_vars

----------------------------------------------------------------------------
(* validate_rules and _apply_capping_rules on one rule list: a list of       *)
(* well-formed rules, overlapping or not, is loaded, validated, and applied  *)
(* to a row.                                                                 *)

\* well-formed rules of the key (A, 1), each range with a multiplier of its
\* own, and one rule of the key (B, 1) whose range holds the products too
OrderRuleSet ==
    {Rule("A", "1", mn, mx, mn + mx + 1) : mn \in RangeVals, mx \in RangeVals}
    \cup {Rule("B", "1", 0, 2 * MaxRange + 1, 2)}

WellFormedRules == {r \in OrderRuleSet : r.rango_max > r.rango_min}

OrderLoadStep ==
    /\ call = <<"__init__">>
    /\ \E n \in 0..MaxImport : \E rs \in [1..n -> WellFormedRules] :
           import_rules_from_dict([rules |-> rs, total_rules |-> n])
    /\ UNCHANGED procVars

OrderValidateStep ==
    /\ call[1] = "import_rules_from_dict"
    /\ validate_rules
    /\ UNCHANGED procVars

\* _apply_capping_rules on a one-row table, after the validation
OrderCapStep ==
    /\ call[1] = "validate_rules"
    /\ \E row \in CapRows :
          \E out \in {_apply_capping_rules([columns |-> CapColumns, rows |-> <<row>>],
                                          rules)} :
              /\ df' = out.df
              /\ log' = out.log
    /\ call' = <<"_apply_capping_rules">>
    /\ ret' = RetFrame
    /\ existing_rule' = <<>>
    /\ UNCHANGED <<rules, errors, cus_plan_formula, written, snapshot>>

NextOrder == OrderLoadStep \/ OrderValidateStep \/ OrderCapStep

SpecOrder == Init /\ [][NextOrder]_vars

----------------------------------------------------------------------------
(* _apply_capping_rules run on a table and once more on the table it        *)
(* returned, as process_block_models does on the concatenated tables.       *)

RecapLoadStep ==
    /\ call = <<"__init__">>
    /\ \E n \in 0..MaxRules : \E rs \in [1..n -> WellFormedRules] :
           import_rules_from_dict([rules |-> rs, total_rules |-> n])
    /\ UNCHANGED procVars

\* the first run, on a mapped and labelled table
RecapFirstStep ==
    /\ call[1] = "import_rules_from_dict"
    /\ \E n \in 0..MaxRows : \E rows \in [1..n -> CapRows] :
          \E out \in {_apply_capping_rules([columns |-> CapColumns, rows |-> rows],
                                          rules)} :
              /\ df' = out.df
              /\ log' = out.log
    /\ call' = <<"_apply_capping_rules", "first">>
    /\ ret' = RetFrame
    /\ existing_rule' = <<>>
    /\ errors' = <<>>
    /\ UNCHANGED <<rules, cus_plan_formula, written, snapshot>>

\* the second run, on the table the first returned; the call is recorded with
\* the table it was given
RecapAgainStep ==
    /\ call = <<"_apply_capping_rules", "first">>
    /\ \E out \in {_apply_capping_rules(df, rules)} :
          /\ df' = out.df
          /\ log' = out.log
    /\ call' = <<"_apply_capping_rules", "again", df>>
    /\ ret' = RetFrame
    /\ existing_rule' = <<>>
    /\ errors' = <<>>
    /\ UNCHANGED <<rules, cus_plan_formula, written, snapshot>>

NextRecap == RecapLoadStep \/ RecapFirstStep \/ RecapAgainStep

SpecRecap == Init /\ [][NextRecap]_vars

----------------------------------------------------------------------------
(* process_individual_file on files whose STAGE column holds numbers or     *)
(* text, under rules for either kind of category value.                     *)

\* records with a CUT inside or at the end of the rules' ranges and a STAGE
\* that is a number or a text
ModeLines == {<<c, "3", p>> : c \in {"0", "1", "2"}, p \in {"1", "2", "N"}}

ModeFiles ==
    {Unreadable, NoStageFile}
    \cup UNION {{<<Header>> \o MetaLines \o data : data \in [1..n -> ModeLines]} :
                   n \in 0..MaxRows}

\* rule lists for the category values 1 and N
ModeRuleLists ==
    {<<>>,
     <<Rule("A", "1", 0, 2, 2)>>,
     <<Rule("A", "N", 0, 2, 2)>>,
     <<Rule("A", "1", 1, 2, 2), Rule("A", "N", 0, 2, 3)>>,
     <<Rule("A", "1.0", 0, 2, 2), Rule("A", "nan", 0, 2, 3)>>}

ModeIndividualStep ==
    /\ Configuring
    /\ \E file \in ModeFiles : \E solido_label \in {"A", "B"} :
       \E capping_rules \in ModeRuleLists :
          \E out \in {process_individual_file(file, solido_label, ColumnMapping,
                                             capping_rules, cus_plan_formula)} :
              /\ call' = <<"process_individual_file", capping_rules, file,
                           solido_label>>
              /\ ret' = out.ret
              /\ df' = out.df
              /\ log' = out.log
    /\ UNCHANGED <<rules, existing_rule, errors, cus_plan_formula, written,
                   snapshot>>

NextModes == SetFormulaStep \/ ModeIndividualStep

SpecModes == Init /\ [][NextModes]_vars

----------------------------------------------------------------------------
(* Properties of the rule store *)

\* the arguments of the last call, when it was add_rule
CallIsAdd == call[1] = "add_rule"
CallIsRemove == call[1] = "remove_rule"

\* the indices of the rules of rs with the key (solido, pas_cut) whose range
\* overlaps [rango_min, rango_max): new_min < existing_max and
\* new_max > existing_min
OverlapIdx(rs, solido, pas_cut, rango_min, rango_max) ==
    {i \in DOMAIN rs : /\ rs[i].solido = solido
                       /\ rs[i].pas_cut = pas_cut
                       /\ rango_min < rs[i].rango_max
                       /\ rango_max > rs[i].rango_min}

\* the rules of rs of another key than (solido, pas_cut), in list order
OtherKeys(rs, solido, pas_cut) ==
    LET Other(r) == ~(r.solido = solido /\ r.pas_cut = pas_cut)
    IN  SelectSeq(rs, Other)

\* C1 (P1, overlap replace): a successful add_rule for key (L, C) whose range
\* overlaps an existing rule of (L, C) removes exactly one rule, an
\* overlapping rule of (L, C), and appends the new rule; when the range
\* overlaps no rule of (L, C) the new rule is appended and every existing
\* rule is kept; the rules of other keys are never removed.
P1_OverlapReplace ==
    [][(call'[1] = "add_rule" /\ ret' = RetNone) =>
        LET new == Rule(call'[2], call'[3], call'[4], call'[5], call'[6])
            ov == OverlapIdx(rules, call'[2], call'[3], call'[4], call'[5])
        IN  /\ ov # {} => \E i \in ov : rules' = Append(RemoveAt(rules, i), new)
            /\ ov = {} => rules' = Append(rules, new)
            /\ OtherKeys(rules', call'[2], call'[3])
                   = OtherKeys(rules, call'[2], call'[3])
       ]_vars

\* an add_rule replaced a rule and kept another rule of the same key
P1_Witness ==
    /\ CallIsAdd /\ ret = RetNone
    /\ existing_rule # <<>>
    /\ Len(rules) = 2
    /\ SameKey(rules[1], rules[2])

\* C2 (per-key non-overlap): any two distinct stored rules of the same key
\* have non-overlapping ranges.
PerKeyNonOverlap ==
    \A i, j \in DOMAIN rules :
        (i # j /\ rules[i].solido = rules[j].solido
               /\ rules[i].pas_cut = rules[j].pas_cut)
        => ~(rules[i].rango_min < rules[j].rango_max
             /\ rules[i].rango_max > rules[j].rango_min)

\* C3 (rejected add): add_rule called with rango_max <= rango_min or with
\* multiplicador <= 0 raises ValueError and leaves the rule list as it was.
RejectedAddUnchanged ==
    [][(call'[1] = "add_rule" /\ (call'[5] <= call'[4] \/ call'[6] <= 0)) =>
        (ret' \in {ErrRange, ErrMult} /\ rules' = rules)
       ]_vars

\* a rejected add_rule whose range overlaps a stored rule of its key
RejectedAddWitness ==
    /\ CallIsAdd /\ ret \in {ErrRange, ErrMult}
    /\ OverlapIdx(rules, call[2], call[3], call[4], call[5]) # {}

ExactIdx(rs, solido, pas_cut, rango_min, rango_max) ==
    {i \in DOMAIN rs : /\ rs[i].solido = solido
                       /\ rs[i].pas_cut = pas_cut
                       /\ rs[i].rango_min = rango_min
                       /\ rs[i].rango_max = rango_max}

\* C5 (exact-match removal): remove_rule returns True and removes exactly one
\* rule, equal to the arguments on the four fields, when there is such a
\* rule; otherwise it returns False and leaves the rule list as it was.
ExactMatchRemoval ==
    [][call'[1] = "remove_rule" =>
        LET ex == ExactIdx(rules, call'[2], call'[3], call'[4], call'[5])
        IN  IF ex # {}
            THEN ret' = RetTrue /\ \E i \in ex : rules' = RemoveAt(rules, i)
            ELSE ret' = RetFalse /\ rules' = rules
       ]_vars

\* remove_rule returned False although a stored rule has the key of the
\* arguments and a range that overlaps theirs
ExactMatchWitness ==
    /\ CallIsRemove /\ ret = RetFalse
    /\ OverlapIdx(rules, call[2], call[3], call[4], call[5]) # {}

----------------------------------------------------------------------------
(* Properties of validate_rules *)

\* two rules of rs share their key and their ranges overlap
SomeOverlap(rs) ==
    \E i, j \in DOMAIN rs :
        /\ i # j
        /\ rs[i].solido = rs[j].solido /\ rs[i].pas_cut = rs[j].pas_cut
        /\ rs[i].rango_min < rs[j].rango_max
        /\ rs[i].rango_max > rs[j].rango_min

WellFormedRanges(rs) == \A i \in DOMAIN rs : rs[i].rango_max > rs[i].rango_min

----------------------------------------------------------------------------
(* Properties of the capping engine *)

\* the indices of the rules of rs whose mask matches the row: solido equal,
\* pas_cut equal, rango_min <= cut_op < rango_max (a missing cut_op matches
\* no rule)
MatchingIdx(rs, row) ==
    {k \in DOMAIN rs : /\ rs[k].solido = row.solido
                       /\ rs[k].pas_cut = row.pas_cut
                       /\ row.cut_op # NaN
                       /\ rs[k].rango_min <= row.cut_op
                       /\ row.cut_op < rs[k].rango_max}

MaxOf(S) == CHOOSE x \in S : \A y \in S : y <= x

CappingRan == call[1] = "_apply_capping_rules"

\* C7 (P2, capping correctness): after _apply_capping_rules, for every row,
\* cut_plan is cut_op when no rule's mask matches the row, and cut_op times
\* the multiplier of the last matching rule in list order otherwise (the one
\* matching rule when there is exactly one); never a product of several
\* multipliers.  A missing cut_op stays missing.
P2_CappingCorrect ==
    CappingRan =>
        \A i \in DOMAIN df.rows :
            LET row == df.rows[i]
                m == MatchingIdx(rules, row)
            IN  IF m = {} THEN row.cut_plan = row.cut_op
                ELSE row.cut_plan
                         = FMul(row.cut_op, rules[MaxOf(m)].multiplicador)

\* a row two rules with different multipliers match: it carries the product
\* with the later rule's multiplier only
P2_Witness ==
    /\ CappingRan
    /\ \E i \in DOMAIN df.rows :
          /\ Cardinality(MatchingIdx(rules, df.rows[i])) = 2
          /\ rules[1].multiplicador # rules[2].multiplicador
          /\ df.rows[i].cut_op > 0
          /\ df.rows[i].cut_plan = df.rows[i].cut_op * rules[2].multiplicador

\* the rules of rs with the key of the row
KeyIdx(rs, row) ==
    {k \in DOMAIN rs : rs[k].solido = row.solido /\ rs[k].pas_cut = row.pas_cut}

\* C8, capping: a row whose cut_op is the rango_min of a rule of its key is
\* scaled by that rule, and a row whose cut_op is the rango_max of a rule of
\* its key is left as it is by that rule (no other rule matching the row).
BoundaryCapping ==
    CappingRan =>
        \A i \in DOMAIN df.rows : \A k \in KeyIdx(rules, df.rows[i]) :
            LET row == df.rows[i]
                others == MatchingIdx(rules, row) \ {k}
            IN  /\ (row.cut_op = rules[k].rango_min /\ others = {})
                       => row.cut_plan = row.cut_op * rules[k].multiplicador
                /\ (row.cut_op = rules[k].rango_max /\ others = {})
                       => row.cut_plan = row.cut_op

\* C8, store: a successful add_rule keeps every stored rule of the new rule's
\* key whose range only touches the new range (its rango_max is the new
\* rango_min, or its rango_min the new rango_max).
BoundaryStore ==
    [][(call'[1] = "add_rule" /\ ret' = RetNone) =>
        \A i \in DOMAIN rules :
            (/\ rules[i].solido = call'[2] /\ rules[i].pas_cut = call'[3]
             /\ (rules[i].rango_max = call'[4] \/ rules[i].rango_min = call'[5]))
            => /\ \E j \in DOMAIN rules' : j < Len(rules') /\ rules'[j] = rules[i]
               /\ rules'[Len(rules')]
                      = Rule(call'[2], call'[3], call'[4], call'[5], call'[6])
       ]_vars

\* C8 (range boundaries): a rule's range is inclusive at rango_min and
\* exclusive at rango_max, in capping and in the store's overlap test.
RangeBoundaries == []BoundaryCapping /\ BoundaryStore

\* two rules of one key that touch are stored, and a row whose cut_op is the
\* bound they share was scaled by the rule that starts there
RangeBoundariesWitness ==
    /\ CappingRan
    /\ Len(rules) = 2 /\ Len(df.rows) = 1
    /\ KeyIdx(rules, df.rows[1]) = {1, 2}
    /\ rules[1].rango_max = rules[2].rango_min
    /\ rules[1].multiplicador # rules[2].multiplicador
    /\ df.rows[1].cut_op = rules[2].rango_min
    /\ df.rows[1].cut_plan = df.rows[1].cut_op * rules[2].multiplicador

----------------------------------------------------------------------------
(* Properties of the derivation of cus_plan *)

BlockRan == call[1] = "process_block_models"
IndividualRan == call[1] = "process_individual_file"
Logged(msg) == \E i \in DOMAIN log : log[i].msg = msg

\* what the rule list makes of a row's cut_op: the product with the
\* multiplier of the last rule that matches, cut_op itself when none does
CappedCut(rs, row) ==
    IF MatchingIdx(rs, row) = {} THEN row.cut_op
    ELSE FMul(row.cut_op, rs[MaxOf(MatchingIdx(rs, row))].multiplicador)

\* a row of process_block_models' result holds the default product, taken
\* with the capped cut_plan
BlockRowDefault(row) ==
    /\ row.CUT_PLAN = CappedCut(call[2], [solido |-> row.SOLIDO,
                                          pas_cut |-> row.pas_cut,
                                          cut_op |-> row.cut_op])
    /\ row.CUS_PLAN = FMul(row.rst_op, row.CUT_PLAN)

\* the same of a row of process_individual_file's result, whose rst_op and
\* cut_op are the numbers of the mapped columns
IndividualRowDefault(row) ==
    /\ row.CUT_PLAN = CappedCut(call[2], [solido |-> row.SOLIDO,
                                          pas_cut |-> NumericText(row.STAGE),
                                          cut_op |-> ToNumeric(row.CUT)])
    /\ row.CUS_PLAN = FMul(ToNumeric(row.RST), row.CUT_PLAN)

AllRowsDefault ==
    /\ BlockRan => \A i \in DOMAIN df.rows : BlockRowDefault(df.rows[i])
    /\ IndividualRan => \A i \in DOMAIN df.rows : IndividualRowDefault(df.rows[i])

\* C9 (P3, default formula): under the default formula every row of the
\* output of process_block_models and of process_individual_file has
\* cus_plan = rst_op * cut_plan, cut_plan being the value capping left.
P3_DefaultFormula ==
    ((BlockRan \/ IndividualRan) /\ cus_plan_formula = DefaultFormula
        /\ ret = RetFrame)
    => AllRowsDefault

\* a row in a rule's range, so that cut_plan differs from cut_op and the
\* product shows which of the two was taken
CappedRow(row) ==
    /\ row.CUT_PLAN # NaN
    /\ row.CUT_PLAN # ToNumeric(row.CUT)
    /\ row.CUS_PLAN # NaN
    /\ row.CUS_PLAN = ToNumeric(row.RST) * row.CUT_PLAN

P3_Witness ==
    /\ BlockRan
    /\ cus_plan_formula = DefaultFormula
    /\ ret = RetFrame
    /\ Len(df.rows) = 2
    /\ CappedRow(df.rows[2])
    /\ df.rows[1].CUS_PLAN = NaN

\* C10 (P4, formula fallback): set_cus_plan_formula stores any string and
\* returns; when the stored formula fails to evaluate, the run does not fail
\* for it, an error is logged, and every row has cus_plan = rst_op * cut_plan.
P4_FormulaFallback ==
    /\ call[1] = "set_cus_plan_formula"
          => (ret = RetNone /\ cus_plan_formula = call[2])
    /\ ((BlockRan \/ IndividualRan) /\ cus_plan_formula \in RaisingFormulas
           /\ Logged("Formula utilizada"))
          => /\ Logged("Error calculando CUS_PLAN")
             /\ ret = RetFrame \/ (BlockRan /\ ret = ErrColumn("STAGE"))
             /\ ret = RetFrame => AllRowsDefault

P4_Witness ==
    /\ IndividualRan
    /\ cus_plan_formula = FormulaText
    /\ ret = RetFrame
    /\ Logged("Error calculando CUS_PLAN")
    /\ Len(df.rows) = 1
    /\ CappedRow(df.rows[1])

----------------------------------------------------------------------------
(* Properties of process_block_models on a batch of files *)

\* the arguments of the processor call the state is left by
CallRules == call[2]
CallFiles == call[3]
CallLabels == call[4]

\* a file the batch can process: it has a record (a line after the header
\* and the three metadata lines) and every column the mapping names
Processable(file) ==
    /\ Len(file) >= 5
    /\ \A k \in DOMAIN ColumnMapping :
          \E j \in DOMAIN file[1] : file[1][j] = ColumnMapping[k][2]

\* the number a text field stands for, NaN when it is not a number
TextNum(t) == IF IsIntText(t) THEN NumOf(t) ELSE NaN

\* the field of a record under the column the mapping gives a standard name
MappedField(file, line, std_name) ==
    LET k == CHOOSE k \in DOMAIN ColumnMapping : ColumnMapping[k][1] = std_name
    IN  line[ColumnIndex(file[1], ColumnMapping[k][2])]

\* the label of the i-th file of the batch
LabelOfFile(labels, i) ==
    IF labels[i] = <<>> THEN "solido_" \o IntText(i - 1) ELSE labels[i][1]

\* the records of the processable files from file i on, in file order and
\* line order, each with the index of its file
RECURSIVE SourceRows(_, _)
SourceRows(files, i) ==
    IF i > Len(files) THEN <<>>
    ELSE (IF Processable(files[i])
          THEN [j \in 1..(Len(files[i]) - 4) |->
                   [file |-> i, line |-> files[i][4 + j]]]
          ELSE <<>>)
         \o SourceRows(files, i + 1)

\* C11 (per-file isolation, consolidate-all): when one file of the batch can
\* be processed, process_block_models returns the table of the processable
\* files, whatever the other files are.
BlockIsolation ==
    (BlockRan /\ \E i \in DOMAIN CallFiles : Processable(CallFiles[i]))
    => /\ ret = RetFrame
       /\ Len(df.rows) = Len(SourceRows(CallFiles, 1))

\* C12 (all-failed batch): process_block_models fails if and only if no file
\* of the batch can be processed (the empty batch included), and then no
\* table is returned.
AllFailedIff ==
    BlockRan =>
        LET all_failed == \A i \in DOMAIN CallFiles : ~Processable(CallFiles[i])
        IN  /\ ret # RetFrame <=> all_failed
            /\ all_failed => (ret = ErrNoFile /\ df = NoTable)

\* what the batch computes for one record of file i
ExpectedOf(src) ==
    LET file == CallFiles[src.file]
        label == LabelOfFile(CallLabels, src.file)
        cut_op == TextNum(MappedField(file, src.line, "cut_op"))
        rst_op == TextNum(MappedField(file, src.line, "rst_op"))
        pas_cut == MappedField(file, src.line, "pas_cut")
        cut_plan == CappedCut(CallRules, [solido |-> label, pas_cut |-> pas_cut,
                                          cut_op |-> cut_op])
    IN  [cut_op |-> cut_op, rst_op |-> rst_op, pas_cut |-> pas_cut,
         SOLIDO |-> label, CUT_PLAN |-> cut_plan,
         CUS_PLAN |-> IF cus_plan_formula = FormulaFactor
                      THEN FMul(FMul(rst_op, cut_plan), 2)
                      ELSE FMul(rst_op, cut_plan)]

ColumnAt(c) == CHOOSE j \in DOMAIN df.columns : df.columns[j] = c

\* C14 (consolidated column order): the table process_block_models returns
\* starts with the columns label, pas_cut, cut_op, cut_plan, rst_op, cus_plan.
ColumnOrderPrefix ==
    (BlockRan /\ ret = RetFrame)
    => /\ Len(df.columns) >= 6
       /\ SubSeq(df.columns, 1, 6)
             = <<"SOLIDO", "pas_cut", "cut_op", "CUT_PLAN", "rst_op", "CUS_PLAN">>

----------------------------------------------------------------------------
(* Properties of process_individual_file *)

CallFile == call[3]

\* C15 (per-file augmentation frame): the table process_individual_file
\* returns has the file's columns followed by SOLIDO, CUT_PLAN and CUS_PLAN
\* and nothing else, one row per record in the file's order, and every
\* column of the file holds the values read from the file.
AugmentationFrame ==
    (IndividualRan /\ ret = RetFrame)
    => /\ df.columns = CallFile[1] \o <<"SOLIDO", "CUT_PLAN", "CUS_PLAN">>
       /\ Len(df.rows) = Len(CallFile) - 4
       /\ \A j \in DOMAIN df.rows : \A i \in DOMAIN CallFile[1] :
             df.rows[j][CallFile[1][i]] = ReadCsv(CallFile).rows[j][CallFile[1][i]]

----------------------------------------------------------------------------
(* Properties of process_data *)

DataRan == call[1] = "process_data"
CallMode == call[5]
CallLocked == call[6]
CallMapping == call[7]

\* a run in per-file mode that passed the validations
PerFileRun ==
    /\ DataRan
    /\ CallFiles # <<>>
    /\ CallMapping = ColumnMapping
    /\ CallMode \in {"create_duplicates", "update_original"}

\* the files of the run that can be processed and whose output can be written
GoodIdx == {i \in DOMAIN CallFiles : Processable(CallFiles[i]) /\ i # CallLocked}

----------------------------------------------------------------------------
(* Properties of the log sink *)

CallSink == call[5]

\* what the last processor call returns under the sink log_callback
UnderSink(log_callback) ==
    IF BlockRan
    THEN WithSink(process_block_models(CallFiles, CallLabels, ColumnMapping,
                                       CallRules, cus_plan_formula), log_callback)
    ELSE WithSink(process_individual_file(CallFile, CallLabels, ColumnMapping,
                                          CallRules, cus_plan_formula), log_callback)

----------------------------------------------------------------------------
(* Properties of the write-back *)

\* the file whose metadata file k of written was given, and the table saved
ReferenceOf(k) == CallFiles[written[k].path[2]]

SavedTable(k) ==
    IF CallMode = "consolidate_all"
    THEN process_block_models(CallFiles, CallLabels, ColumnMapping, CallRules,
                              cus_plan_formula).df
    ELSE process_individual_file(ReferenceOf(k),
                                 LabelOr(CallLabels, written[k].path[2], "unknown"),
                                 ColumnMapping, CallRules, cus_plan_formula).df

\* a line of the reference file, with '' for the columns past its fields
Padded(line, width) ==
    [i \in 1..width |-> IF i <= Len(line) THEN line[i] ELSE ""]

\* the text of a cell read back from a written file
CellText(cell) ==
    IF cell.t = "str" THEN cell.s
    ELSE IF cell.n = NaN THEN ""
    ELSE AsTypeStr(cell)

\* the records of a written file as the reader returns them
ReadBack(lines) ==
    LET table == ReadCsv(lines)
    IN  [i \in DOMAIN table.rows |->
            [j \in DOMAIN table.columns |-> CellText(table.rows[i][table.columns[j]])]]

HasMetadata(file) == file # Unreadable /\ Len(file) >= 4

\* the layout of file k of written, but for its lines 2-4
WrittenLayout(k) ==
    LET lines == written[k].lines
        table == SavedTable(k)
    IN  /\ lines[1] = table.columns
        /\ IF HasMetadata(ReferenceOf(k))
           THEN /\ Len(lines) = 4 + Len(table.rows)
                /\ SubSeq(lines, 5, Len(lines)) = ToCsvData(table)
                /\ ReadBack(lines) = ToCsvData(table)
           ELSE lines = <<table.columns>> \o ToCsvData(table)

\* C18 (metadata-preserving write-back round trip): a file process_data
\* writes has the output table's header as line 1, the lines 2-4 of its
\* reference file as lines 2-4 (padded with empty fields for the appended
\* columns), and the data rows from line 5 on, which are what the reader
\* returns for the written file; when the reference file yields no
\* metadata, the file is the header and the data rows alone.
MetadataRoundTrip ==
    DataRan
    => \A k \in DOMAIN written :
          /\ WrittenLayout(k)
          /\ HasMetadata(ReferenceOf(k))
             => \A m \in 2..4 :
                   written[k].lines[m]
                       = Padded(ReferenceOf(k)[m], Len(written[k].lines[1]))
----------------------------------------------------------------------------
(* Properties of the reader *)

ReadRan == call[1] = "_read_csv_safe"
ReadFile == call[2]

\* the cell holds the value of the field: the text itself, or its number
FieldMatches(cell, text) ==
    IF text \in NaTexts THEN cell.t = "float" /\ cell.n = NaN
    ELSE IF cell.t = "str" THEN cell.s = text
    ELSE IsNumText(text) /\ cell.n = NumOf(text)

\* C19 (P6, metadata skip): for a file of a header line, three metadata
\* lines and n records, _read_csv_safe returns a table of n rows whose
\* columns are line 1 and whose row i holds the fields of line 4 + i (the
\* first row those of line 5); the table is the one read from the same file
\* with other metadata lines, so that lines 2-4 never show in it.
P6_MetadataSkip ==
    (ReadRan /\ ReadFile # Unreadable)
    => /\ ret = RetFrame
       /\ df.columns = ReadFile[1]
       /\ Len(df.rows) = Len(ReadFile) - 4
       /\ \A i \in DOMAIN df.rows : \A j \in DOMAIN ReadFile[1] :
             FieldMatches(df.rows[i][ReadFile[1][j]], ReadFile[4 + i][j])
       /\ df = ReadCsv(<<ReadFile[1]>> \o MetaLines \o SubSeq(ReadFile, 5, Len(ReadFile)))

\* a file read whose metadata lines read as records, one of them of text
\* above a column of numbers
P6_Witness ==
    /\ ReadRan
    /\ ReadFile # Unreadable
    /\ ReadFile[2] = <<"1", "3", "1">>
    /\ ReadFile[3] = <<"x", "", "N">>
    /\ Len(df.rows) = MaxRows
    /\ df.rows[1].CUT.t = "int"
----------------------------------------------------------------------------
(* Properties of the mapper *)

MapRan == call[1] = "_map_columns"
MapInput == call[4]
MapMapping == call[3]

\* the three source columns of the mapping exist in the table
SourcesExist ==
    \A k \in DOMAIN MapMapping : HasColumn(MapInput, MapMapping[k][2])

\* C20 (P7, augment-mode mapping preserves originals): for a raw table and
\* a mapping whose three source columns exist, _map_columns returns a table
\* with the three columns cut_op, rst_op, pas_cut added after the original
\* columns, every original column under its name with its values, and
\* leaves the table it was handed as it was.
P7_MapPreserves ==
    (MapRan /\ SourcesExist)
    => /\ ret = RetFrame
       /\ df.columns = MapInput.columns \o <<"cut_op", "rst_op", "pas_cut">>
       /\ Len(df.rows) = Len(MapInput.rows)
       /\ \A i \in DOMAIN df.rows : \A j \in DOMAIN MapInput.columns :
             df.rows[i][MapInput.columns[j]] = MapInput.rows[i][MapInput.columns[j]]
       /\ call[2] = MapInput
\* the column the mapping gives the standard name std_name
SourceOf(std_name) ==
    MapMapping[CHOOSE k \in DOMAIN MapMapping : MapMapping[k][1] = std_name][2]

\* C21 (mapping binds each role to its source column): after _map_columns
\* with {cut_op: a, rst_op: b, pas_cut: c}, cut_op holds the numeric
\* coercion of the raw column a, rst_op that of the raw column b, and
\* pas_cut the string form of the raw column c, row by row, for every
\* choice of a, b, c among the raw columns; and when one of a, b, c is not a
\* column of the table the call raises an error that names it.
MapBindsRoles ==
    MapRan
    => IF SourcesExist
       THEN /\ ret = RetFrame
            /\ \A i \in DOMAIN df.rows :
                  /\ df.rows[i].cut_op = ToNumeric(MapInput.rows[i][SourceOf("cut_op")])
                  /\ df.rows[i].rst_op = ToNumeric(MapInput.rows[i][SourceOf("rst_op")])
                  /\ df.rows[i].pas_cut = AsTypeStr(MapInput.rows[i][SourceOf("pas_cut")])
       ELSE \E k \in DOMAIN MapMapping :
               /\ ~HasColumn(MapInput, MapMapping[k][2])
               /\ ret = ErrColumn(MapMapping[k][2])
-----------------------------------------------------------------------------
(* Properties of the rule store under a processing run *)

-----------------------------------------------------------------------------
(* Properties of the rule editor *)

\* the dialog saved the values it was given
EditSaved == call[1] = "save_rule" /\ ret = RetNone
EditOriginal == call[2]
EditNew == Rule(call[3], call[4], call[5], call[6], call[7])

\* C23 (edits are remove+add): after an existing rule is edited through
\* edit_capping_rule and save_rule with valid new values, the store holds the
\* new rule and no longer holds the original rule, for every choice of new
\* values (a range that does not overlap the old one and a changed
\* solido/pas_cut key included).
EditReplaces ==
    EditSaved
    => /\ \E i \in DOMAIN rules : rules[i] = EditNew
       /\ EditOriginal # EditNew
          => \A i \in DOMAIN rules : rules[i] # EditOriginal
-----------------------------------------------------------------------------
(* Properties of the labels *)

\* the name of the i-th path of csv_files, split before its extension
CsvName(i) == <<"bm" \o IntText(i), ".csv">>

\* a file name without its extension
BaseName(name) == name[1]

\* the labels of the run, with the base name of its file for each file that
\* was given none
LabelsFromNames ==
    [i \in DOMAIN CallLabels |->
        IF CallLabels[i] = <<>> THEN <<BaseName(CsvName(i))>> ELSE CallLabels[i]]

-----------------------------------------------------------------------------
(* Properties of get_all_rules *)

\* rs with its entry k left out keeps the order of the others
IsOrderKept(before, after) ==
    \/ after = before
    \/ \E k \in DOMAIN before : after = RemoveAt(before, k)

\* C25 (snapshot semantics of get_all_rules): get_all_rules returns the
\* stored rules in insertion order (a successful add_rule puts the new rule
\* last and keeps the order of the rules that stay, remove_rule keeps the
\* order of the others, and the list returned is the stored list, entry by
\* entry); a list already returned is not changed by a later add_rule,
\* remove_rule or clear_all_rules; and appending to or removing from the
\* returned list does not change the store.
SnapshotStep ==
    /\ call'[1] = "get_all_rules" => snapshot'.items = rules /\ rules' = rules
    /\ call'[1] = "add_rule" /\ ret' = RetNone
       => /\ rules'[Len(rules')] = Rule(call'[2], call'[3], call'[4], call'[5], call'[6])
          /\ IsOrderKept(rules, SubSeq(rules', 1, Len(rules') - 1))
    /\ call'[1] = "remove_rule" => IsOrderKept(rules, rules')
    /\ call'[1] \in {"add_rule", "remove_rule", "clear_all_rules"}
       => snapshot'.items = snapshot.items
    /\ call'[1] \in {"snapshot.append", "snapshot.remove"} => rules' = rules

SnapshotSemantics == [][SnapshotStep]_vars

\* a list was returned with a rule of the store; since then that rule left
\* the store, another entered it, and the caller appended to the list
SnapshotWitness ==
    /\ call[1] = "snapshot.append"
    /\ snapshot.taken
    /\ \E j \in DOMAIN snapshot.items :
          /\ snapshot.items[j] \in SnapRuleSet
          /\ \A i \in DOMAIN rules : rules[i] # snapshot.items[j]
    /\ \E i \in DOMAIN rules :
          \A j \in DOMAIN snapshot.items : snapshot.items[j] # rules[i]
-----------------------------------------------------------------------------
(* Properties of the capping log *)

\* the rules of the list whose mask selects at least one row of the table
AffectingIdx == {k \in DOMAIN rules : AffectedRows(df.rows, rules[k]) > 0}

\* the 'Regla aplicada' lines of the log, and its closing line
AppliedLineIdx == {k \in DOMAIN log : log[k].msg = "Regla aplicada"}
TallyLine == log[Len(log)]

\* one 'Regla aplicada' line per rule that affected a row, in list order,
\* with the number of rows it affected, and none for the other rules
AppliedLinesMatch ==
    /\ Cardinality(AppliedLineIdx) = Cardinality(AffectingIdx)
    /\ AppliedLineIdx = 1..(Len(log) - 1)
    /\ \A k \in AffectingIdx :
          log[Cardinality({j \in AffectingIdx : j <= k})].n
              = AffectedRows(df.rows, rules[k])

\* C26 as stated (capping log tally): _apply_capping_rules logs one 'rule
\* applied' line for each rule that affected at least one row and none for
\* the rules that affected no row, and the final tally it logs counts every
\* rule of the list, the rules that affected no row included.
TallyCountsEveryRule ==
    CappingRan
    => /\ AppliedLinesMatch
       /\ TallyLine.msg = "Total de reglas aplicadas"
       /\ TallyLine.n = Len(rules)

\* C26, amended: _apply_capping_rules logs one 'rule applied' line for each
\* rule that affected at least one row and none for the rules that affected
\* no row, and the final tally it logs counts the rules that affected at
\* least one row; the rules that affected no row are not counted.
TallyCountsApplied ==
    CappingRan
    => /\ AppliedLinesMatch
       /\ TallyLine.msg = "Total de reglas aplicadas"
       /\ TallyLine.n = Cardinality(AffectingIdx)

\* a list of two rules of which one affected a row and the other none
TallyWitness ==
    /\ CappingRan
    /\ Len(rules) = 2
    /\ Cardinality(AffectingIdx) = 1
    /\ TallyLine.n = 1
-----------------------------------------------------------------------------
(* Properties of the capping engine under a validated rule list *)

\* the rule list in every order
PermutedRules ==
    {[i \in DOMAIN rules |-> rules[p[i]]] : p \in Permutations(DOMAIN rules)}

\* the table before the capping: the table after it without cut_plan
Uncapped ==
    [columns |-> CapColumns,
     rows |-> [i \in DOMAIN df.rows |->
                  [c \in DOMAIN df.rows[i] \ {"cut_plan"} |-> df.rows[i][c]]]]

\* C27 (order independence under a valid store): when validate_rules returns
\* an empty list for a list of well-formed rules, at most one rule's mask
\* matches any row, and _apply_capping_rules yields the same cut_plan for
\* every permutation of the list; two rules match one row only when
\* validate_rules reports an error.
OrderIndependent ==
    CappingRan
    => /\ errors = <<>>
          => /\ \A i \in DOMAIN df.rows :
                   Cardinality({k \in DOMAIN rules : RuleMask(df.rows[i], rules[k])}) <= 1
             /\ \A rs \in PermutedRules :
                   _apply_capping_rules(Uncapped, rs).df = df
       /\ \A i \in DOMAIN df.rows :
             Cardinality({k \in DOMAIN rules : RuleMask(df.rows[i], rules[k])}) >= 2
             => errors # <<>>

\* a validated list with two rules of one key, of different multipliers, and
\* a rule of another key; the row is scaled by the one rule that matches it
OrderWitness ==
    /\ CappingRan
    /\ errors = <<>>
    /\ Len(rules) = 3
    /\ \E j, k \in DOMAIN rules :
          /\ SameKey(rules[j], rules[k])
          /\ rules[j].multiplicador # rules[k].multiplicador
    /\ \E j, k \in DOMAIN rules : ~SameKey(rules[j], rules[k])
    /\ \E k \in DOMAIN rules :
          /\ RuleMask(df.rows[1], rules[k])
          /\ df.rows[1].cut_op > 0
          /\ df.rows[1].cut_plan = df.rows[1].cut_op * rules[k].multiplicador
-----------------------------------------------------------------------------
(* Properties of add_rule's replacement *)

MinOf(S) == CHOOSE x \in S : \A y \in S : x <= y

\* C28 (single-replace semantics): a successful add_rule removes at most one
\* rule, the earliest-inserted rule of the new rule's key whose range
\* overlaps the new range; any other overlapping rule of the key stays, the
\* new rule is inserted, and the store size is unchanged or larger by one.
SingleReplace ==
    [][(call'[1] = "add_rule" /\ ret' = RetNone) =>
        LET new == Rule(call'[2], call'[3], call'[4], call'[5], call'[6])
            ov == OverlapIdx(rules, call'[2], call'[3], call'[4], call'[5])
        IN  /\ rules' = Append(IF ov = {} THEN rules
                               ELSE RemoveAt(rules, MinOf(ov)), new)
            /\ Len(rules') \in {Len(rules), Len(rules) + 1}
       ]_vars

\* the new range overlapped two rules of its key: the first was removed and
\* the second is still in the store, before the new rule
SingleReplaceWitness ==
    /\ CallIsAdd /\ ret = RetNone
    /\ existing_rule # <<>>
    /\ \E i \in 1..(Len(rules) - 1) :
          /\ SameKey(rules[i], rules[Len(rules)])
          /\ RangesOverlap(rules[Len(rules)], rules[i])
-----------------------------------------------------------------------------
(* Properties of repeated capping *)

Recapped == call[1] = "_apply_capping_rules" /\ call[2] = "again"
CappedBefore == call[3]

\* C29 (capping is idempotent): _apply_capping_rules applied with the same
\* rule list to a table that was already capped yields the same cut_plan
\* for every row, and cut_op is as it was: each rule scales cut_op, never
\* the previous cut_plan, and capping never writes cut_op.
CappingIdempotent ==
    Recapped
    => /\ DOMAIN df.rows = DOMAIN CappedBefore.rows
       /\ \A i \in DOMAIN df.rows :
             /\ df.rows[i].cut_plan = CappedBefore.rows[i].cut_plan
             /\ df.rows[i].cut_op = CappedBefore.rows[i].cut_op
       /\ df.columns = CappedBefore.columns

\* a row that was scaled by a multiplier above 1, with two rules matching it,
\* capped once more
CappingIdempotentWitness ==
    /\ Recapped
    /\ \E i \in DOMAIN df.rows :
          /\ df.rows[i].cut_op > 0
          /\ df.rows[i].cut_plan > df.rows[i].cut_op
          /\ Cardinality(MatchingIdx(rules, df.rows[i])) = 2
-----------------------------------------------------------------------------
(* Properties of the two pipeline modes *)

\* process_block_models on the list that holds only the file of the run,
\* with the label of the run
AsBlock ==
    process_block_models(<<CallFile>>, <<<<call[4]>>>>, ColumnMapping, CallRules,
                         cus_plan_formula)

\* C30 (the two pipeline modes agree): for one file, one label, one mapping
\* and one rule list, the SOLIDO, CUT_PLAN and CUS_PLAN columns that
\* process_individual_file returns equal, row by row, those
\* process_block_models returns for the list holding only that file with
\* that label, whatever the categorical column holds (numbers or text).
ModesAgree ==
    (IndividualRan /\ ret = RetFrame /\ AsBlock.ret = RetFrame)
    => /\ DOMAIN df.rows = DOMAIN AsBlock.df.rows
       /\ \A i \in DOMAIN df.rows :
             /\ df.rows[i].SOLIDO = AsBlock.df.rows[i].SOLIDO
             /\ df.rows[i].CUT_PLAN = AsBlock.df.rows[i].CUT_PLAN
             /\ df.rows[i].CUS_PLAN = AsBlock.df.rows[i].CUS_PLAN
====
